---------------------------- MODULE Spec2Model ----------------------------
(***************************************************************************)
(* A model of backend/server.py: the document store (users, payment        *)
(* transactions, bets), the payment provider, and the request handlers.    *)
(* Every handler is a sequence of steps, one per awaited store or provider  *)
(* call, so that concurrent requests interleave exactly where the code can  *)
(* be suspended.                                                            *)
(***************************************************************************)
EXTENDS Integers, Sequences, FiniteSets, TLC

\* ---------------------------------------------------------------- bounds
MaxProcs == 2        \* request slots that may be in flight at once
MaxUsers == 2        \* users that may register
MaxSessions == 2     \* checkout sessions the provider may create
MaxBets == 2         \* bets that may ever be inserted
MaxNotifications == 1 \* notifications that may be sent
MaxBatch == 2        \* updates one getUpdates answer may carry
MaxDays == 1         \* days the clock may move on
MaxLines == 4        \* lines of a message handed to the parser

Procs == 1..MaxProcs

VARIABLES
    users,                 \* db.users, in insertion order
    payment_transactions,  \* db.payment_transactions, in insertion order
    bets,                  \* db.bets, in insertion order
    notifications,         \* db.notifications, in insertion order
    stripe,                \* the provider's checkout sessions; a session id is its index
    env,                   \* os.environ: which collaborators are configured
    clock,                 \* datetime.now(timezone.utc), in hours
    uuids,                 \* how many bet ids uuid.uuid4() has handed out
    req,                   \* the request slots: handler, position, inputs, locals, response
    hist                   \* history: the store as it was when a tracked request started

db == <<users, payment_transactions, bets, notifications>>
world == <<stripe, env, clock, uuids>>
vars == <<users, payment_transactions, bets, notifications, stripe, env, clock, uuids,
          req, hist>>

\* ------------------------------------------------------------ documents
None == 0

ADMIN_CODE == "syndicate2024"
Codes == {ADMIN_CODE, "letmein"}
Emails == {"a@x.io", "b@x.io"}
Passwords == {"pw1", "pw2"}

NoUser ==
    [id |-> None, email |-> "", password_hash |-> <<"bcrypt", "", "">>, is_vip |-> FALSE,
     is_admin |-> FALSE, subscription_status |-> "None", subscription_id |-> None]

\* bcrypt: the hash carries its salt, and checkpw hashes the candidate with it.
Salts == {"s1", "s2"}

hash_password(password, salt) == <<"bcrypt", salt, password>>

verify_password(password, hashed) == hash_password(password, hashed[2]) = hashed

NewUser(user_id, email, password_hash) ==
    [id |-> user_id, email |-> email, password_hash |-> password_hash,
     is_vip |-> FALSE, is_admin |-> FALSE,
     subscription_status |-> "None", subscription_id |-> None]

\* ---------------------------------------------------------------- strings
\* Python's str operations, character by character.  A string is a TLA+ string;
\* SubSeq(s, i, i) is its i-th character.
RECURSIVE FindFrom(_, _, _)
\* str.find(sub, start): the first position >= start where sub occurs, 0 if none.
FindFrom(s, sub, start) ==
    IF start + Len(sub) - 1 > Len(s) THEN 0
    ELSE IF SubSeq(s, start, start + Len(sub) - 1) = sub THEN start
    ELSE FindFrom(s, sub, start + 1)

\* sub in s
Contains(s, sub) == FindFrom(s, sub, 1) # 0

\* s.startswith(prefix)
StartsWith(s, prefix) == Len(prefix) <= Len(s) /\ SubSeq(s, 1, Len(prefix)) = prefix

IsSpace(c) == c \in {" ", "\t", "\r", "\n"}

RECURSIVE LStrip(_)
LStrip(s) == IF Len(s) > 0 /\ IsSpace(SubSeq(s, 1, 1)) THEN LStrip(Tail(s)) ELSE s

RECURSIVE RStrip(_)
RStrip(s) ==
    IF Len(s) > 0 /\ IsSpace(SubSeq(s, Len(s), Len(s)))
    THEN RStrip(SubSeq(s, 1, Len(s) - 1)) ELSE s

\* s.strip()
Strip(s) == RStrip(LStrip(s))

RECURSIVE Split(_, _)
\* s.split(sep): the pieces between the successive occurrences of sep, left to right.
Split(s, sep) ==
    LET i == FindFrom(s, sep, 1)
    IN  IF i = 0 THEN <<s>>
        ELSE <<SubSeq(s, 1, i - 1)>> \o Split(SubSeq(s, i + Len(sep), Len(s)), sep)

UpperCase == "ABCDEFGHIJKLMNOPQRSTUVWXYZ"
LowerCase == "abcdefghijklmnopqrstuvwxyz"

LowerChar(c) ==
    LET i == FindFrom(UpperCase, c, 1)
    IN  IF i = 0 THEN c ELSE SubSeq(LowerCase, i, i)

UpperChar(c) ==
    LET i == FindFrom(LowerCase, c, 1)
    IN  IF i = 0 THEN c ELSE SubSeq(UpperCase, i, i)

RECURSIVE Lower(_)
\* s.lower()
Lower(s) == IF s = "" THEN "" ELSE LowerChar(SubSeq(s, 1, 1)) \o Lower(Tail(s))

RECURSIVE Upper(_)
\* s.upper()
Upper(s) == IF s = "" THEN "" ELSE UpperChar(SubSeq(s, 1, 1)) \o Upper(Tail(s))

RECURSIVE SplitIgnoreCase(_, _)
\* re.split(sep, s, flags=re.IGNORECASE) for a literal, lower-case sep.
SplitIgnoreCase(s, sep) ==
    LET i == FindFrom(Lower(s), sep, 1)
    IN  IF i = 0 THEN <<s>>
        ELSE <<SubSeq(s, 1, i - 1)>>
                 \o SplitIgnoreCase(SubSeq(s, i + Len(sep), Len(s)), sep)

Digits == "0123456789"

IsDigit(c) == Len(c) = 1 /\ Contains(Digits, c)

DigitValue(c) == FindFrom(Digits, c, 1) - 1

RECURSIVE FirstDigit(_, _)
\* The first position >= i of s that holds a digit, 0 if none.
FirstDigit(s, i) ==
    IF i > Len(s) THEN 0
    ELSE IF IsDigit(SubSeq(s, i, i)) THEN i ELSE FirstDigit(s, i + 1)

RECURSIVE DigitsEnd(_, _)
\* The position just after the run of digits that starts at i (i itself when none does).
DigitsEnd(s, i) ==
    IF i <= Len(s) /\ IsDigit(SubSeq(s, i, i)) THEN DigitsEnd(s, i + 1) ELSE i

RECURSIVE SpacesEnd(_, _)
\* The position just after the run of whitespace that starts at i.
SpacesEnd(s, i) ==
    IF i <= Len(s) /\ IsSpace(SubSeq(s, i, i)) THEN SpacesEnd(s, i + 1) ELSE i

RECURSIVE ParseInt(_)
\* int(s) for a string of digits.
ParseInt(s) ==
    IF s = "" THEN 0
    ELSE 10 * ParseInt(SubSeq(s, 1, Len(s) - 1)) + DigitValue(SubSeq(s, Len(s), Len(s)))

\* ----------------------------------------------------- telegram messages
\* The marker glyphs of the channel's posts, each written here as one ASCII
\* character that occurs nowhere else in a message: the ball, the chart, the
\* package, the alarm clock, the check mark and the cross mark.
BALL == "@"
CHART == "^"
PACKAGE == "#"
CLOCK == "~"
CHECK == "+"
CROSS == "!"

NoScore == -1     \* None, for a score

\* A float, kept in thousandths: float("1.37") is 1370.
ParseFloat(whole, frac) == 1000 * ParseInt(whole) + ParseInt(SubSeq(frac \o "000", 1, 3))

\* re.search(r'(\d+)', line): group 1 as an int, or <<>>.
SearchInt(line) ==
    LET i == FirstDigit(line, 1)
    IN  IF i = 0 THEN <<>> ELSE <<ParseInt(SubSeq(line, i, DigitsEnd(line, i) - 1))>>

\* re.search(r'(\d+\.?\d*)', line): group 1 as a float, or <<>>.
SearchFloat(line) ==
    LET i == FirstDigit(line, 1)
        e == DigitsEnd(line, i)
        whole == SubSeq(line, i, e - 1)
        dot == e <= Len(line) /\ SubSeq(line, e, e) = "."
        frac == IF dot THEN SubSeq(line, e + 1, DigitsEnd(line, e + 1) - 1) ELSE ""
    IN  IF i = 0 THEN <<>> ELSE <<ParseFloat(whole, frac)>>

RECURSIVE SearchScore(_, _)
\* re.search(r'(\d+)\s*[-:]\s*(\d+)', line) from position i: <<group 1, group 2>> or <<>>.
SearchScore(line, i) ==
    LET j == FirstDigit(line, i)
        e == DigitsEnd(line, j)
        k == SpacesEnd(line, e)
        m == SpacesEnd(line, k + 1)
    IN  IF j = 0 THEN <<>>
        ELSE IF /\ k <= Len(line) /\ SubSeq(line, k, k) \in {"-", ":"}
                /\ m <= Len(line) /\ IsDigit(SubSeq(line, m, m))
             THEN <<ParseInt(SubSeq(line, j, e - 1)),
                    ParseInt(SubSeq(line, m, DigitsEnd(line, m) - 1))>>
             ELSE SearchScore(line, e)

ParseStart ==
    [home_team |-> "", away_team |-> "", bet_type |-> "", stake |-> 5, odds |-> 1800,
     is_won |-> FALSE, home_score |-> NoScore, away_score |-> NoScore]

\* The match line: "Marseille v Rennes" or "Liverpool vs Man Utd".
ParseTeams(st, line) ==
    IF /\ Contains(line, " v ")
       /\ \A g \in {BALL, CHART, PACKAGE, CLOCK, CHECK, CROSS} : ~StartsWith(line, g)
    THEN LET teams == Split(line, " v ")
         IN  IF Len(teams) = 2
             THEN [st EXCEPT !.home_team = Strip(teams[1]), !.away_team = Strip(teams[2])]
             ELSE st
    ELSE IF Contains(Lower(line), " vs ") /\ ~StartsWith(line, BALL)
    THEN LET teams == SplitIgnoreCase(line, " vs ")
         IN  IF Len(teams) = 2
             THEN [st EXCEPT !.home_team = Strip(teams[1]), !.away_team = Strip(teams[2])]
             ELSE st
    ELSE st

BetTypeOf(line, bet_type) ==
    IF Contains(line, "Over 2.5") THEN "Over 2.5"
    ELSE IF Contains(line, "Under 2.5") THEN "Under 2.5"
    ELSE IF Contains(line, "Over 1.5") THEN "Over 1.5"
    ELSE IF Contains(line, "Under 1.5") THEN "Under 1.5"
    ELSE IF Contains(line, "Over 3.5") THEN "Over 3.5"
    ELSE IF Contains(Upper(line), "BTTS")
         THEN (IF Contains(line, "Yes") THEN "BTTS Yes" ELSE "BTTS No")
    ELSE bet_type

\* Variant: the check mark on the bet type line is not looked at.
ParseBetType_NoCheck(st, line) ==
    IF \E w \in {BALL, "Over", "Under", "BTTS"} : Contains(line, w)
    THEN [st EXCEPT !.bet_type = BetTypeOf(line, @)]
    ELSE st

\* The bet type line: "(ball) Over 2.5 Goals (check)(check)(check)".
ParseBetType(st, line) ==
    IF \E w \in {BALL, "Over", "Under", "BTTS"} : Contains(line, w)
    THEN [st EXCEPT !.bet_type = BetTypeOf(line, @),
                    !.is_won = IF Contains(line, CHECK) THEN TRUE ELSE @]
    ELSE st

\* Variant: the stake is taken as written, with no cap.
ParseStake_NoCap(st, line) ==
    IF (Contains(line, "Points") \/ Contains(line, CHART)) /\ SearchInt(line) # <<>>
    THEN [st EXCEPT !.stake = SearchInt(line)[1]]
    ELSE st

\* The stake line: "(chart) Points - 5".
ParseStake(st, line) ==
    IF (Contains(line, "Points") \/ Contains(line, CHART)) /\ SearchInt(line) # <<>>
    THEN [st EXCEPT !.stake = IF SearchInt(line)[1] > 10 THEN 10 ELSE SearchInt(line)[1]]
    ELSE st

\* The odds line: "(package) Odds - 1.37".
ParseOdds(st, line) ==
    IF (Contains(line, "Odds") \/ Contains(line, PACKAGE)) /\ SearchFloat(line) # <<>>
    THEN [st EXCEPT !.odds = SearchFloat(line)[1]]
    ELSE st

\* The result line: "(check) Result - Full House" or "(cross) Result - Lost".
ParseResult(st, line) ==
    IF ~Contains(line, "Result") THEN st
    ELSE IF \E w \in {CHECK, "Full House", "Won", "Win"} : Contains(line, w)
         THEN [st EXCEPT !.is_won = TRUE]
    ELSE IF \E w \in {CROSS, "Lost", "Loss"} : Contains(line, w)
         THEN [st EXCEPT !.is_won = FALSE]
    ELSE st

\* The score: "Score: 3-1" or "FT: 2-0".
ParseScore(st, line) ==
    IF /\ SearchScore(line, 1) # <<>>
       /\ \E w \in {"Score", "FT", "Result"} : Contains(line, w)
    THEN [st EXCEPT !.home_score = SearchScore(line, 1)[1],
                    !.away_score = SearchScore(line, 1)[2]]
    ELSE st

\* One pass of the loop over the lines.
ParseLine(st, raw) ==
    LET line == Strip(raw)
    IN  ParseScore(ParseResult(ParseOdds(ParseStake(ParseBetType(
            ParseTeams(st, line), line), line), line), line), line)

RECURSIVE ParseLines(_, _)
ParseLines(st, lines) ==
    IF lines = <<>> THEN st ELSE ParseLines(ParseLine(st, Head(lines)), Tail(lines))

\* Variant: a message with both teams is returned whatever its bet type.
parse_telegram_message_TeamsOnly(text) ==
    LET st == ParseLines(ParseStart, Split(Strip(text), "\n"))
    IN  IF st.home_team # "" /\ st.away_team # "" THEN <<st>> ELSE <<>>

\* parse_telegram_message: <<the parsed bet>>, or <<>> for None.
parse_telegram_message(text) ==
    LET st == ParseLines(ParseStart, Split(Strip(text), "\n"))
    IN  IF st.home_team # "" /\ st.away_team # "" /\ st.bet_type # ""
        THEN <<st>> ELSE <<>>

\* ------------------------------------------------------- store primitives
\* find_one returns the first document that matches: FirstOf of the matching
\* positions, 0 when none matches.
FirstOf(positions) ==
    IF positions = {} THEN 0 ELSE CHOOSE i \in positions : \A j \in positions : i <= j

UserIndexById(user_id) == FirstOf({i \in 1..Len(users) : users[i].id = user_id})

UserIndexByEmail(email) == FirstOf({i \in 1..Len(users) : users[i].email = email})

TransactionIndex(session_id) ==
    FirstOf({i \in 1..Len(payment_transactions) :
                payment_transactions[i].session_id = session_id})

\* ----------------------------------------------------------------- tokens
\* A request carries no Authorization header, a token jwt.decode rejects, a
\* token past its expiry, or a token create_token signed for a user id.
Token(kind, user_id) == [kind |-> kind, user_id |-> user_id]

Tokens ==
    {Token("missing", None), Token("malformed", None)}
        \cup {Token(k, u) : k \in {"valid", "expired"}, u \in 1..Len(users)}

create_token(user_id) == Token("valid", user_id)

\* ---------------------------------------------------------- request slots
NoResp == [status |-> 0, detail |-> ""]
NoArg == [none |-> TRUE]
NoHist == [tracked |-> FALSE]

Idle ==
    [op |-> "idle", pc |-> "idle", token |-> Token("missing", None),
     user |-> NoUser, arg |-> NoArg, loc |-> NoArg, resp |-> NoResp]

Snapshot ==
    [tracked |-> TRUE, users |-> users, payment_transactions |-> payment_transactions,
     bets |-> bets, notifications |-> notifications]

Begin(p, op, pc, token, arg, loc, track) ==
    /\ req[p].pc = "idle"
    /\ req' = [req EXCEPT ![p] = [op |-> op, pc |-> pc, token |-> token,
                                  user |-> NoUser, arg |-> arg, loc |-> loc,
                                  resp |-> NoResp]]
    /\ hist' = [hist EXCEPT ![p] = IF track THEN Snapshot ELSE NoHist]

At(p, op, pc) == req[p].op = op /\ req[p].pc = pc

Goto(p, pc) == req' = [req EXCEPT ![p].pc = pc]

GotoWith(p, pc, loc) == req' = [req EXCEPT ![p].pc = pc, ![p].loc = loc]

Respond(p, status, detail) ==
    req' = [req EXCEPT ![p].pc = "done",
                       ![p].resp = [status |-> status, detail |-> detail]]

RespondWith(p, status, detail, loc) ==
    req' = [req EXCEPT ![p].pc = "done", ![p].loc = loc,
                       ![p].resp = [status |-> status, detail |-> detail]]

\* The response leaves the server and the slot is free again.
Return(p) ==
    /\ req[p].pc = "done"
    /\ req' = [req EXCEPT ![p] = Idle]
    /\ hist' = [hist EXCEPT ![p] = NoHist]
    /\ UNCHANGED <<db, world>>

\* ------------------------------------------------------------ auth helpers
\* get_current_user: the 401 it raises, or the user document it returns.
CurrentUser(token) ==
    IF token.kind = "missing" THEN [status |-> 401, detail |-> "Not authenticated", user |-> NoUser]
    ELSE IF token.kind = "expired" THEN [status |-> 401, detail |-> "Token expired", user |-> NoUser]
    ELSE IF token.kind = "malformed" THEN [status |-> 401, detail |-> "Invalid token", user |-> NoUser]
    ELSE IF UserIndexById(token.user_id) = 0
         THEN [status |-> 401, detail |-> "User not found", user |-> NoUser]
         ELSE [status |-> 200, detail |-> "", user |-> users[UserIndexById(token.user_id)]]

\* The handlers that depend on get_current_user, and those on get_admin_user.
UserOps ==
    {"get_me", "verify_admin", "create_checkout", "get_checkout_status",
     "get_vip_today_bets", "get_vip_results"}

AdminOps ==
    {"create_bet", "update_bet_result", "delete_bet", "get_all_bets",
     "send_notification", "get_sent_notifications", "get_subscriber_count",
     "get_telegram_updates", "import_from_telegram", "import_manual_telegram"}

get_current_user(p) ==
    /\ req[p].pc = "auth"
    /\ req[p].op \in UserOps
    /\ LET r == CurrentUser(req[p].token)
       IN  IF r.status # 200
           THEN Respond(p, r.status, r.detail)
           ELSE req' = [req EXCEPT ![p].pc = "body", ![p].user = r.user]
    /\ UNCHANGED <<db, world, hist>>

\* Variant: the is_admin check lets nobody through.
IsAdmin_Nobody(user) == FALSE

\* Variant: the is_admin check lets everyone through.
IsAdmin_Anyone(user) == TRUE

IsAdmin(user) == user.is_admin

get_admin_user(p) ==
    /\ req[p].pc = "auth"
    /\ req[p].op \in AdminOps
    /\ LET r == CurrentUser(req[p].token)
       IN  IF r.status # 200 THEN Respond(p, r.status, r.detail)
           ELSE IF ~IsAdmin(r.user) THEN Respond(p, 403, "Admin access required")
           ELSE req' = [req EXCEPT ![p].pc = "body", ![p].user = r.user]
    /\ UNCHANGED <<db, world, hist>>

\* ------------------------------------------------------------- auth routes
\* UserResponse(...): the fields of the user document the response carries.
UserResponse(user) ==
    [id |-> user.id, email |-> user.email, is_vip |-> user.is_vip,
     is_admin |-> user.is_admin, subscription_status |-> user.subscription_status]

Start_register(p, track) ==
    /\ Len(users) + Cardinality({q \in Procs : req[q].op = "register"}) < MaxUsers
    /\ \E email \in Emails, password \in Passwords :
         Begin(p, "register", "find", Token("missing", None),
               [email |-> email, password |-> password], NoArg, track)
    /\ UNCHANGED <<db, world>>

\* Variant: an existing email does not stop the registration.
register_find_NoCheck(p) ==
    /\ At(p, "register", "find")
    /\ Goto(p, "insert")
    /\ UNCHANGED <<db, world, hist>>

register_find(p) ==
    /\ At(p, "register", "find")
    /\ IF UserIndexByEmail(req[p].arg.email) # 0
       THEN Respond(p, 400, "Email already registered")
       ELSE Goto(p, "insert")
    /\ UNCHANGED <<db, world, hist>>

register_insert(p) ==
    /\ At(p, "register", "insert")
    /\ \E salt \in Salts :
         LET user_id == Len(users) + 1
         IN  /\ users' = Append(users, NewUser(user_id, req[p].arg.email,
                                               hash_password(req[p].arg.password, salt)))
             /\ RespondWith(p, 200, "",
                    [token |-> create_token(user_id),
                     user |-> UserResponse(NewUser(user_id, req[p].arg.email,
                                  hash_password(req[p].arg.password, salt)))])
    /\ UNCHANGED <<payment_transactions, bets, notifications, world, hist>>

Start_login(p, track) ==
    /\ \E email \in Emails, password \in Passwords :
         Begin(p, "login", "body", Token("missing", None),
               [email |-> email, password |-> password], NoArg, track)
    /\ UNCHANGED <<db, world>>

\* Variant: the stored hash is not compared.
login_AnyPassword(p) ==
    /\ At(p, "login", "body")
    /\ LET i == UserIndexByEmail(req[p].arg.email)
       IN  IF i = 0 THEN Respond(p, 401, "Invalid credentials")
           ELSE RespondWith(p, 200, "", [token |-> create_token(users[i].id),
                                         user |-> UserResponse(users[i])])
    /\ UNCHANGED <<db, world, hist>>

login(p) ==
    /\ At(p, "login", "body")
    /\ LET i == UserIndexByEmail(req[p].arg.email)
       IN  IF i = 0 THEN Respond(p, 401, "Invalid credentials")
           ELSE IF ~verify_password(req[p].arg.password, users[i].password_hash)
           THEN Respond(p, 401, "Invalid credentials")
           ELSE RespondWith(p, 200, "", [token |-> create_token(users[i].id),
                                         user |-> UserResponse(users[i])])
    /\ UNCHANGED <<db, world, hist>>

Start_get_me(p, track) ==
    /\ \E token \in Tokens : Begin(p, "get_me", "auth", token, NoArg, NoArg, track)
    /\ UNCHANGED <<db, world>>

get_me(p) ==
    /\ At(p, "get_me", "body")
    /\ RespondWith(p, 200, "", [user |-> UserResponse(req[p].user)])
    /\ UNCHANGED <<db, world, hist>>

\* ------------------------------------------------------------ admin routes
Start_verify_admin(p, track) ==
    /\ \E token \in Tokens, code \in Codes :
         Begin(p, "verify_admin", "auth", token, [code |-> code], NoArg, track)
    /\ UNCHANGED <<db, world>>

\* Variant: elevation also makes the user VIP.
GrantAdmin_AndVip(user) == [user EXCEPT !.is_admin = TRUE, !.is_vip = TRUE]

GrantAdmin(user) == [user EXCEPT !.is_admin = TRUE]

\* Variant: the code is not compared.
verify_admin_AnyCode(p) ==
    /\ At(p, "verify_admin", "body")
    /\ LET i == UserIndexById(req[p].user.id)
       IN  users' = IF i = 0 THEN users ELSE [users EXCEPT ![i].is_admin = TRUE]
    /\ Respond(p, 200, "Admin access granted")
    /\ UNCHANGED <<payment_transactions, bets, notifications, world, hist>>

verify_admin(p) ==
    /\ At(p, "verify_admin", "body")
    /\ IF req[p].arg.code # ADMIN_CODE
       THEN /\ Respond(p, 403, "Invalid admin code")
            /\ UNCHANGED users
       ELSE /\ LET i == UserIndexById(req[p].user.id)
               IN  users' = IF i = 0 THEN users
                            ELSE [users EXCEPT ![i] = GrantAdmin(@)]
            /\ Respond(p, 200, "Admin access granted")
    /\ UNCHANGED <<payment_transactions, bets, notifications, world, hist>>

\* ---------------------------------------------------------- payment routes
\* The provider: a customer pays an open checkout session.  The customer has
\* the session's url from the answer of create_checkout, which is sent after
\* the transaction is inserted.
ProviderPays(s) ==
    /\ s \in 1..Len(stripe)
    /\ TransactionIndex(s) # 0
    /\ \A p \in Procs : ~(req[p].op = "create_checkout" /\ req[p].pc # "idle"
                           /\ "session_id" \in DOMAIN req[p].loc
                           /\ req[p].loc.session_id = s)
    /\ stripe[s].payment_status = "unpaid"
    /\ stripe' = [stripe EXCEPT ![s].payment_status = "paid"]
    /\ UNCHANGED <<db, env, clock, uuids, req, hist>>

Start_create_checkout(p, track) ==
    /\ Len(stripe) + Cardinality({q \in Procs : /\ req[q].op = "create_checkout"
                                                /\ req[q].pc \in {"auth", "body"}})
          < MaxSessions
    /\ \E token \in Tokens :
         Begin(p, "create_checkout", "auth", token, NoArg, NoArg, track)
    /\ UNCHANGED <<db, world>>

create_checkout_session(p) ==
    /\ At(p, "create_checkout", "body")
    /\ IF ~env.STRIPE_API_KEY
       THEN /\ Respond(p, 500, "Stripe not configured")
            /\ UNCHANGED stripe
       ELSE /\ stripe' = Append(stripe, [metadata |-> [user_id |-> req[p].user.id],
                                          payment_status |-> "unpaid"])
            /\ GotoWith(p, "insert", [session_id |-> Len(stripe) + 1])
    /\ UNCHANGED <<db, env, clock, uuids, hist>>

create_checkout_insert(p) ==
    /\ At(p, "create_checkout", "insert")
    /\ payment_transactions' =
           Append(payment_transactions,
                  [session_id |-> req[p].loc.session_id, user_id |-> req[p].user.id,
                   payment_status |-> "pending"])
    /\ Respond(p, 200, "")
    /\ UNCHANGED <<users, bets, notifications, world, hist>>

MarkPaid(transaction) == [transaction EXCEPT !.payment_status = "paid"]

\* Variant: only the flag is set, the subscription fields are left alone.
GrantVip_FlagOnly(user, session_id) == [user EXCEPT !.is_vip = TRUE]

\* Variant: a paid session also makes the user an admin.
GrantVip_AndAdmin(user, session_id) ==
    [user EXCEPT !.is_vip = TRUE, !.is_admin = TRUE, !.subscription_status = "active",
                 !.subscription_id = session_id]

GrantVip(user, session_id) ==
    [user EXCEPT !.is_vip = TRUE, !.subscription_status = "active",
                 !.subscription_id = session_id]

\* db.payment_transactions.update_one({"session_id": ...}, {"$set": {"payment_status": "paid"}})
UpdateTransaction(session_id) ==
    LET i == TransactionIndex(session_id)
    IN  IF i = 0 THEN payment_transactions
        ELSE [payment_transactions EXCEPT ![i] = MarkPaid(@)]

\* Variant: the update has no filter, every user is granted VIP.
UpdateUserVip_Everyone(user_id, session_id) ==
    [i \in DOMAIN users |-> GrantVip(users[i], session_id)]

\* db.users.update_one({"id": ...}, {"$set": {"is_vip": True, ...}})
UpdateUserVip(user_id, session_id) ==
    LET i == UserIndexById(user_id)
    IN  IF i = 0 THEN users ELSE [users EXCEPT ![i] = GrantVip(@, session_id)]

Start_get_checkout_status(p, track) ==
    /\ \E token \in Tokens, session_id \in 1..MaxSessions :
         Begin(p, "get_checkout_status", "auth", token,
               [session_id |-> session_id], NoArg, track)
    /\ UNCHANGED <<db, world>>

\* stripe_checkout.get_checkout_status: the provider's live answer.
get_checkout_status_provider(p) ==
    /\ At(p, "get_checkout_status", "body")
    /\ LET s == req[p].arg.session_id
       IN  IF ~env.STRIPE_API_KEY THEN Respond(p, 500, "Stripe not configured")
           ELSE IF s > Len(stripe) THEN Respond(p, 500, "No such checkout session")
           ELSE IF stripe[s].payment_status = "paid" THEN Goto(p, "find")
           ELSE Respond(p, 200, stripe[s].payment_status)
    /\ UNCHANGED <<db, world, hist>>

AlreadyProcessed(i) == i = 0 \/ payment_transactions[i].payment_status = "paid"

get_checkout_status_find(p) ==
    /\ At(p, "get_checkout_status", "find")
    /\ IF AlreadyProcessed(TransactionIndex(req[p].arg.session_id))
       THEN Respond(p, 200, "paid")
       ELSE Goto(p, "update_transaction")
    /\ UNCHANGED <<db, world, hist>>

get_checkout_status_update_transaction(p) ==
    /\ At(p, "get_checkout_status", "update_transaction")
    /\ payment_transactions' = UpdateTransaction(req[p].arg.session_id)
    /\ Goto(p, "update_user")
    /\ UNCHANGED <<users, bets, notifications, world, hist>>

get_checkout_status_update_user(p) ==
    /\ At(p, "get_checkout_status", "update_user")
    /\ users' = UpdateUserVip(req[p].user.id, req[p].arg.session_id)
    /\ Respond(p, 200, "paid")
    /\ UNCHANGED <<payment_transactions, bets, notifications, world, hist>>

\* A webhook delivery: an event the provider signed for one of its sessions
\* (a paid event only once the session is paid), or a body whose signature
\* does not verify.
WebhookEvents ==
    {[valid |-> FALSE, session_id |-> None, payment_status |-> "unpaid",
      metadata |-> [user_id |-> None]]}
      \cup UNION {{[valid |-> TRUE, session_id |-> s, payment_status |-> ps,
                     metadata |-> stripe[s].metadata] :
                       ps \in {"unpaid", stripe[s].payment_status}} :
                    s \in 1..Len(stripe)}

Start_stripe_webhook(p, track) ==
    /\ \E event \in WebhookEvents :
         Begin(p, "stripe_webhook", "body", Token("missing", None), event, NoArg, track)
    /\ UNCHANGED <<db, world>>

\* A delivery the provider did not sign: its sender writes into the body what
\* they like, a paid event for a session and a user.
Start_stripe_webhook_unsigned(p, track) ==
    /\ \E s \in 1..Len(stripe), u \in 1..Len(users) :
         Begin(p, "stripe_webhook", "body", Token("missing", None),
               [valid |-> FALSE, session_id |-> s, payment_status |-> "paid",
                metadata |-> [user_id |-> users[u].id]], NoArg, track)
    /\ UNCHANGED <<db, world>>

\* Variant: the signature is not verified.
stripe_webhook_handle_Unverified(p) ==
    /\ At(p, "stripe_webhook", "body")
    /\ IF ~env.STRIPE_API_KEY THEN Respond(p, 500, "Stripe not configured")
       ELSE IF req[p].arg.payment_status = "paid" THEN Goto(p, "update_transaction")
       ELSE Respond(p, 200, "success")
    /\ UNCHANGED <<db, world, hist>>

\* stripe_checkout.handle_webhook, and the branch on its answer.
stripe_webhook_handle(p) ==
    /\ At(p, "stripe_webhook", "body")
    /\ IF ~env.STRIPE_API_KEY THEN Respond(p, 500, "Stripe not configured")
       ELSE IF ~req[p].arg.valid THEN Respond(p, 200, "error")
       ELSE IF req[p].arg.payment_status = "paid" THEN Goto(p, "update_transaction")
       ELSE Respond(p, 200, "success")
    /\ UNCHANGED <<db, world, hist>>

stripe_webhook_update_transaction(p) ==
    /\ At(p, "stripe_webhook", "update_transaction")
    /\ payment_transactions' = UpdateTransaction(req[p].arg.session_id)
    /\ IF req[p].arg.metadata.user_id # None
       THEN Goto(p, "update_user")
       ELSE Respond(p, 200, "success")
    /\ UNCHANGED <<users, bets, notifications, world, hist>>

stripe_webhook_update_user(p) ==
    /\ At(p, "stripe_webhook", "update_user")
    /\ users' = UpdateUserVip(req[p].arg.metadata.user_id, req[p].arg.session_id)
    /\ Respond(p, 200, "success")
    /\ UNCHANGED <<payment_transactions, bets, notifications, world, hist>>

\* One of the two store calls raises (the store is unreachable): the except
\* clause answers {"status": "error"}, and what was written before stays.
stripe_webhook_update_raises(p) ==
    /\ req[p].op = "stripe_webhook"
    /\ req[p].pc \in {"update_transaction", "update_user"}
    /\ RespondWith(p, 200, "error", [raised |-> req[p].pc])
    /\ UNCHANGED <<db, world, hist>>

\* ---------------------------------------------------------------- bets
\* Time is counted in hours; the calendar date of an hour is its day.
DateOf(instant) == instant \div 24

\* kick_off is an ISO datetime string: a wall-clock time and a UTC offset.
\* isoformat() of a UTC datetime writes the instant with offset +00:00.
IsoFormat(instant) == [local |-> instant, offset |-> 0]

\* datetime.fromisoformat: the instant the string denotes.
FromIsoFormat(iso) == iso.local - iso.offset

\* The store compares kick_off values as strings: the wall-clock text first,
\* then the offset suffix.
StringLeq(a, b) == a.local < b.local \/ (a.local = b.local /\ a.offset <= b.offset)

\* Variant: the filter on the id is dropped, the first pick matches.
BetIndex_AnyId(bet_id) == FirstOf(1..Len(bets))

BetIndex(bet_id) == FirstOf({i \in 1..Len(bets) : bets[i].id = bet_id})

\* Variant: the lookup by message id finds nothing.
BetIndexByMessage_NotFound(message_id) == 0

BetIndexByMessage(message_id) ==
    FirstOf({i \in 1..Len(bets) : bets[i].telegram_message_id = message_id})

RECURSIVE Without(_, _)
\* The sequence s without its i-th element.
Without(s, i) ==
    IF i = 1 THEN Tail(s) ELSE <<Head(s)>> \o Without(Tail(s), i - 1)

Start_create_bet(p, track, BetData) ==
    /\ \E token \in Tokens, bet_data \in BetData :
         Begin(p, "create_bet", "auth", token, bet_data, NoArg, track)
    /\ UNCHANGED <<db, world>>

\* bet_doc: the document create_bet stores for the request body d.
BetDoc(bet_id, d) ==
    [id |-> bet_id, home_team |-> d.home_team, away_team |-> d.away_team,
     league |-> d.league, bet_type |-> d.bet_type, odds |-> d.odds, stake |-> d.stake,
     kick_off |-> d.kick_off, is_vip |-> d.is_vip, status |-> "pending",
     home_score |-> NoScore, away_score |-> NoScore,
     date |-> DateOf(d.kick_off.local), telegram_message_id |-> None]

create_bet(p) ==
    /\ At(p, "create_bet", "body")
    /\ uuids < MaxBets
    /\ LET bet_doc == BetDoc(uuids + 1, req[p].arg)
       IN  /\ bets' = Append(bets, bet_doc)
           /\ uuids' = uuids + 1
           /\ RespondWith(p, 200, "", [bet |-> bet_doc])
    /\ UNCHANGED <<users, payment_transactions, notifications, stripe, env, clock, hist>>

Start_update_bet_result(p, track, Updates) ==
    /\ \E token \in Tokens, update_data \in Updates :
         Begin(p, "update_bet_result", "auth", token, update_data, NoArg, track)
    /\ UNCHANGED <<db, world>>

\* Variant: both scores are written, supplied or not.
SetResult_BothScores(bet, update_data) ==
    [bet EXCEPT !.status = update_data.status,
                !.home_score = update_data.home_score,
                !.away_score = update_data.away_score]

\* {"$set": update_fields}
SetResult(bet, update_data) ==
    [bet EXCEPT !.status = update_data.status,
                !.home_score = IF update_data.home_score # NoScore
                               THEN update_data.home_score ELSE @,
                !.away_score = IF update_data.away_score # NoScore
                               THEN update_data.away_score ELSE @]

update_bet_result(p) ==
    /\ At(p, "update_bet_result", "body")
    /\ LET i == BetIndex(req[p].arg.bet_id)
       IN  IF i = 0
           THEN /\ Respond(p, 404, "Bet not found")
                /\ UNCHANGED bets
           ELSE /\ bets' = [bets EXCEPT ![i] = SetResult(@, req[p].arg)]
                /\ RespondWith(p, 200, "", [bet |-> SetResult(bets[i], req[p].arg)])
    /\ UNCHANGED <<users, payment_transactions, notifications, world, hist>>

Start_delete_bet(p, track) ==
    /\ \E token \in Tokens, bet_id \in 1..MaxBets :
         Begin(p, "delete_bet", "auth", token, [bet_id |-> bet_id], NoArg, track)
    /\ UNCHANGED <<db, world>>

delete_bet(p) ==
    /\ At(p, "delete_bet", "body")
    /\ LET i == BetIndex(req[p].arg.bet_id)
       IN  IF i = 0
           THEN /\ Respond(p, 404, "Bet not found")
                /\ UNCHANGED bets
           ELSE /\ bets' = Without(bets, i)
                /\ Respond(p, 200, "")
    /\ UNCHANGED <<users, payment_transactions, notifications, world, hist>>

Start_get_all_bets(p, track) ==
    /\ \E token \in Tokens :
         Begin(p, "get_all_bets", "auth", token, NoArg, NoArg, track)
    /\ UNCHANGED <<db, world>>

\* find(...).sort("kick_off", direction).to_list(limit) over the bets at the
\* given positions: the orders the store may answer in (bets that share a
\* kick_off come in either order).
Sorted(positions, ascending, limit) ==
    LET n == IF Cardinality(positions) < limit THEN Cardinality(positions) ELSE limit
        InOrder(i, j) == IF ascending THEN StringLeq(bets[i].kick_off, bets[j].kick_off)
                         ELSE StringLeq(bets[j].kick_off, bets[i].kick_off)
    IN  {s \in [1..n -> positions] :
            /\ \A i, j \in 1..n : i < j => (s[i] # s[j] /\ InOrder(s[i], s[j]))
            /\ \A k \in positions \ {s[i] : i \in 1..n} : \A i \in 1..n : InOrder(s[i], k)}

BetsAt(s) == [i \in DOMAIN s |-> bets[s[i]]]

get_all_bets(p) ==
    /\ At(p, "get_all_bets", "body")
    /\ \E s \in Sorted(DOMAIN bets, FALSE, 1000) :
         RespondWith(p, 200, "", [bets |-> BetsAt(s)])
    /\ UNCHANGED <<db, world, hist>>

Start_get_vip_bets(p, track) ==
    /\ \E token \in Tokens, op \in {"get_vip_today_bets", "get_vip_results"} :
         Begin(p, op, "auth", token, NoArg, NoArg, track)
    /\ UNCHANGED <<db, world>>

\* Variant: admins pass the VIP check.
IsVip_OrAdmin(user) == user.is_vip \/ user.is_admin

IsVip(user) == user.is_vip

\* get_vip_today_bets and get_vip_results: the VIP check, then the query.
get_vip_bets(p) ==
    /\ req[p].op \in {"get_vip_today_bets", "get_vip_results"}
    /\ req[p].pc = "body"
    /\ IF ~IsVip(req[p].user)
       THEN Respond(p, 403, "VIP subscription required")
       ELSE IF req[p].op = "get_vip_today_bets"
       THEN \E s \in Sorted({i \in DOMAIN bets : /\ bets[i].date = DateOf(clock)
                                                  /\ bets[i].is_vip
                                                  /\ bets[i].status = "pending"},
                             TRUE, 100) :
              RespondWith(p, 200, "", [today |-> DateOf(clock), bets |-> BetsAt(s)])
       ELSE \E s \in Sorted({i \in DOMAIN bets : /\ bets[i].status \in {"won", "lost"}
                                                  /\ bets[i].is_vip},
                             FALSE, 100) :
              RespondWith(p, 200, "", [bets |-> BetsAt(s)])
    /\ UNCHANGED <<db, world, hist>>

\* ------------------------------------------------------ public listings
\* The public routes take no token.
Start_get_today_bets(p, track) ==
    /\ Begin(p, "get_today_bets", "body", Token("missing", None), NoArg, NoArg, track)
    /\ UNCHANGED <<db, world>>

get_today_bets(p) ==
    /\ At(p, "get_today_bets", "body")
    /\ \E s \in Sorted({i \in DOMAIN bets : /\ bets[i].date = DateOf(clock)
                                            /\ ~bets[i].is_vip
                                            /\ bets[i].status = "pending"},
                       TRUE, 100) :
         RespondWith(p, 200, "", [today |-> DateOf(clock), bets |-> BetsAt(s)])
    /\ UNCHANGED <<db, world, hist>>

Start_get_results(p, track) ==
    /\ Begin(p, "get_results", "body", Token("missing", None), NoArg, NoArg, track)
    /\ UNCHANGED <<db, world>>

get_results(p) ==
    /\ At(p, "get_results", "body")
    /\ \E s \in Sorted({i \in DOMAIN bets : /\ bets[i].status \in {"won", "lost"}
                                            /\ ~bets[i].is_vip},
                       FALSE, 100) :
         RespondWith(p, 200, "", [bets |-> BetsAt(s)])
    /\ UNCHANGED <<db, world, hist>>

\* ----------------------------------------------------------------- stats
\* round(x, 1) of the quotient num / den, in tenths: the nearest tenth, a tie
\* going to the even one.
Round1(num, den) ==
    LET q == (10 * num) \div den
        r == (10 * num) % den
    IN  IF 2 * r < den THEN q
        ELSE IF 2 * r > den THEN q + 1
        ELSE IF q % 2 = 0 THEN q ELSE q + 1

Start_get_stats(p, track) ==
    /\ Begin(p, "get_stats", "total", Token("missing", None), NoArg, NoArg, track)
    /\ UNCHANGED <<db, world>>

\* count_documents({"status": {"$in": ["won", "lost"]}})
get_stats_total(p) ==
    /\ At(p, "get_stats", "total")
    /\ GotoWith(p, "won",
                [total_bets |-> Cardinality({i \in DOMAIN bets :
                                               bets[i].status \in {"won", "lost"}})])
    /\ UNCHANGED <<db, world, hist>>

\* Variant: the rate is truncated to a whole percent.
WinRate_Whole(won_bets, total_bets) ==
    IF total_bets > 0 THEN 10 * ((won_bets * 100) \div total_bets) ELSE 0

\* win_rate in tenths of a percent.
WinRate(won_bets, total_bets) ==
    IF total_bets > 0 THEN Round1(won_bets * 100, total_bets) ELSE 0

\* count_documents({"status": "won"}), then the answer.
get_stats_won(p) ==
    /\ At(p, "get_stats", "won")
    /\ LET total_bets == req[p].loc.total_bets
           won_bets == Cardinality({i \in DOMAIN bets : bets[i].status = "won"})
       IN  RespondWith(p, 200, "",
                       [total_bets |-> total_bets, won_bets |-> won_bets,
                        lost_bets |-> total_bets - won_bets,
                        win_rate |-> WinRate(won_bets, total_bets)])
    /\ UNCHANGED <<db, world, hist>>

\* -------------------------------------------------------- notifications
Start_send_notification(p, track) ==
    /\ Len(notifications)
         + Cardinality({q \in Procs : /\ req[q].op = "send_notification"
                                      /\ req[q].pc \in {"auth", "body"}})
         < MaxNotifications
    /\ \E token \in Tokens :
         Begin(p, "send_notification", "auth", token,
               [title |-> "Bets live", body |-> "Today's bets are up",
                notification_type |-> "bets_live"], NoArg, track)
    /\ UNCHANGED <<db, world>>

send_notification_insert(p) ==
    /\ At(p, "send_notification", "body")
    /\ notifications' =
           Append(notifications,
                  [id |-> Len(notifications) + 1, title |-> req[p].arg.title,
                   body |-> req[p].arg.body,
                   notification_type |-> req[p].arg.notification_type,
                   sent_by |-> req[p].user.id])
    /\ Goto(p, "count")
    /\ UNCHANGED <<users, payment_transactions, bets, world, hist>>

\* count_documents on the subscriptions, for the log line only.
send_notification_count(p) ==
    /\ At(p, "send_notification", "count")
    /\ Respond(p, 200, "")
    /\ UNCHANGED <<db, world, hist>>

Start_admin_read(p, track) ==
    /\ \E token \in Tokens, op \in {"get_sent_notifications", "get_subscriber_count"} :
         Begin(p, op, "auth", token, NoArg, NoArg, track)
    /\ UNCHANGED <<db, world>>

\* get_sent_notifications and get_subscriber_count: one query, then the answer.
admin_read(p) ==
    /\ req[p].op \in {"get_sent_notifications", "get_subscriber_count"}
    /\ req[p].pc = "body"
    /\ Respond(p, 200, "")
    /\ UNCHANGED <<db, world, hist>>

\* ------------------------------------------------------ telegram import
\* The channel's posts: two that parse, one that does not, one without text,
\* and a post that carries the message id of the first.
Posts ==
    {[message_id |-> 1, date |-> 5,
      text |-> "Ajax v PSV\n@ Over 2.5 Goals +\n^ Points - 5\n# Odds - 1.37"],
     [message_id |-> 2, date |-> 30,
      text |-> "Lyon vs Nice\nBTTS Yes\n! Result - Lost 0-1"],
     [message_id |-> 3, date |-> 30, text |-> "Good luck everyone"],
     [message_id |-> 4, date |-> 31, text |-> ""],
     [message_id |-> 1, date |-> 6, text |-> "Roma v Lazio\nUnder 2.5 Goals"]}

\* The answers of the Bot API's getUpdates: a connection failure, a response
\* that is not ok, or up to MaxBatch updates.
Fetches ==
    {[outcome |-> o, updates |-> <<>>] : o \in {"request_error", "not_ok"}}
      \cup {[outcome |-> "ok", updates |-> u] :
              u \in UNION {[1..n -> Posts] : n \in 0..MaxBatch}}

ManualTexts ==
    {"", "Good luck everyone", "Lyon vs Nice\nBTTS Yes\n! Result - Lost 0-1",
     "Ajax v PSV\n@ Over 2.5 Goals +\n^ Points - 5\n# Odds - 1.37"}

\* parse_telegram_message on the texts above, computed once.
Parsed ==
    [text \in {m.text : m \in Posts} \cup ManualTexts |-> parse_telegram_message(text)]

\* An update of getUpdates carries a post: its message_id, its date and its
\* text ("" for a post without text).
Parseable(update) == update.text # "" /\ Parsed[update.text] # <<>>

RECURSIVE NextParseable(_, _)
\* The first position >= i of updates that the loop does not pass over, 0 if none.
NextParseable(updates, i) ==
    IF i > Len(updates) THEN 0
    ELSE IF Parseable(updates[i]) THEN i
    ELSE NextParseable(updates, i + 1)

\* Variant: an imported pick is stored pending, like a created one.
ImportedBet_Pending(bet_id, parsed, kick_off, message_id) ==
    [id |-> bet_id, home_team |-> parsed.home_team, away_team |-> parsed.away_team,
     league |-> "Imported", bet_type |-> parsed.bet_type, odds |-> parsed.odds,
     stake |-> parsed.stake, kick_off |-> IsoFormat(kick_off), is_vip |-> FALSE,
     status |-> "pending",
     home_score |-> parsed.home_score, away_score |-> parsed.away_score,
     date |-> DateOf(kick_off), telegram_message_id |-> message_id]

ImportedBet(bet_id, parsed, kick_off, message_id) ==
    [id |-> bet_id, home_team |-> parsed.home_team, away_team |-> parsed.away_team,
     league |-> "Imported", bet_type |-> parsed.bet_type, odds |-> parsed.odds,
     stake |-> parsed.stake, kick_off |-> IsoFormat(kick_off), is_vip |-> FALSE,
     status |-> IF parsed.is_won THEN "won" ELSE "lost",
     home_score |-> parsed.home_score, away_score |-> parsed.away_score,
     date |-> DateOf(kick_off), telegram_message_id |-> message_id]

Start_import_from_telegram(p, track) ==
    /\ \E token \in Tokens :
         Begin(p, "import_from_telegram", "auth", token, NoArg,
               [updates |-> <<>>, i |-> 0, imported |-> 0, skipped |-> 0], track)
    /\ UNCHANGED <<db, world>>

\* The loop of import_from_telegram runs on to its next awaited store call:
\* the find_one of the next parseable update, or the end of the updates.
Advance(p, loc) ==
    LET j == NextParseable(loc.updates, loc.i + 1)
    IN  IF j = 0 THEN RespondWith(p, 200, "", loc)
        ELSE GotoWith(p, "find", [loc EXCEPT !.i = j])

import_from_telegram_fetch(p, Answers) ==
    /\ At(p, "import_from_telegram", "body")
    /\ IF ~env.TELEGRAM_BOT_TOKEN THEN Respond(p, 500, "Telegram bot not configured")
       ELSE \E fetch \in Answers :
              IF fetch.outcome = "request_error"
              THEN Respond(p, 500, "Failed to connect to Telegram")
              ELSE IF fetch.outcome = "not_ok" THEN Respond(p, 500, "Telegram API error")
              ELSE Advance(p, [req[p].loc EXCEPT !.updates = fetch.updates])
    /\ UNCHANGED <<db, world, hist>>

import_from_telegram_find(p) ==
    /\ At(p, "import_from_telegram", "find")
    /\ IF BetIndexByMessage(req[p].loc.updates[req[p].loc.i].message_id) # 0
       THEN Advance(p, [req[p].loc EXCEPT !.skipped = @ + 1])
       ELSE Goto(p, "insert")
    /\ UNCHANGED <<db, world, hist>>

import_from_telegram_insert(p) ==
    /\ At(p, "import_from_telegram", "insert")
    /\ uuids < MaxBets
    /\ LET post == req[p].loc.updates[req[p].loc.i]
       IN  bets' = Append(bets, ImportedBet(uuids + 1, Parsed[post.text][1],
                                            post.date, post.message_id))
    /\ uuids' = uuids + 1
    /\ Advance(p, [req[p].loc EXCEPT !.imported = @ + 1])
    /\ UNCHANGED <<users, payment_transactions, notifications, stripe, env, clock, hist>>

Start_get_telegram_updates(p, track) ==
    /\ \E token \in Tokens :
         Begin(p, "get_telegram_updates", "auth", token, NoArg, NoArg, track)
    /\ UNCHANGED <<db, world>>

get_telegram_updates(p, Answers) ==
    /\ At(p, "get_telegram_updates", "body")
    /\ IF ~env.TELEGRAM_BOT_TOKEN THEN Respond(p, 500, "Telegram bot not configured")
       ELSE \E fetch \in Answers :
              IF fetch.outcome = "request_error"
              THEN Respond(p, 500, "Failed to connect to Telegram")
              ELSE IF fetch.outcome = "not_ok" THEN Respond(p, 500, "Telegram API error")
              ELSE RespondWith(p, 200, "",
                       [count |-> Cardinality({i \in 1..Len(fetch.updates) :
                                                  Parseable(fetch.updates[i])})])
    /\ UNCHANGED <<db, world, hist>>

Start_import_manual_telegram(p, track, Texts) ==
    /\ \E token \in Tokens, text \in Texts :
         Begin(p, "import_manual_telegram", "auth", token, [text |-> text], NoArg, track)
    /\ UNCHANGED <<db, world>>

\* Variant: a text whose match and bet type are already stored is not
\* inserted again.
import_manual_telegram_SkipKnown(p) ==
    /\ At(p, "import_manual_telegram", "body")
    /\ LET parsed == Parsed[req[p].arg.text]
       IN  IF req[p].arg.text = ""
           THEN /\ Respond(p, 400, "No text provided")
                /\ UNCHANGED <<bets, uuids>>
           ELSE IF parsed = <<>>
           THEN /\ Respond(p, 400, "Could not parse the message. Check the format.")
                /\ UNCHANGED <<bets, uuids>>
           ELSE IF \E i \in 1..Len(bets) : /\ bets[i].home_team = parsed[1].home_team
                                           /\ bets[i].away_team = parsed[1].away_team
                                           /\ bets[i].bet_type = parsed[1].bet_type
           THEN /\ Respond(p, 200, "")
                /\ UNCHANGED <<bets, uuids>>
           ELSE /\ uuids < MaxBets
                /\ bets' = Append(bets, ImportedBet(uuids + 1, parsed[1], clock, None))
                /\ uuids' = uuids + 1
                /\ RespondWith(p, 200, "", [bet |-> ImportedBet(uuids + 1, parsed[1], clock, None)])
    /\ UNCHANGED <<users, payment_transactions, notifications, stripe, env, clock, hist>>

import_manual_telegram(p) ==
    /\ At(p, "import_manual_telegram", "body")
    /\ LET parsed == Parsed[req[p].arg.text]
       IN  IF req[p].arg.text = ""
           THEN /\ Respond(p, 400, "No text provided")
                /\ UNCHANGED <<bets, uuids>>
           ELSE IF parsed = <<>>
           THEN /\ Respond(p, 400, "Could not parse the message. Check the format.")
                /\ UNCHANGED <<bets, uuids>>
           ELSE /\ uuids < MaxBets
                /\ bets' = Append(bets, ImportedBet(uuids + 1, parsed[1], clock, None))
                /\ uuids' = uuids + 1
                /\ RespondWith(p, 200, "", [bet |-> ImportedBet(uuids + 1, parsed[1], clock, None)])
    /\ UNCHANGED <<users, payment_transactions, notifications, stripe, env, clock, hist>>

\* ------------------------------------------------------------ the parser
\* The lines the channel's posts are made of, each with the fields its rule
\* sets.
MessageLines ==
    <<[text |-> "Marseille v Rennes",
       sets |-> [home_team |-> "Marseille", away_team |-> "Rennes"]],
      [text |-> "@ Over 2.5 Goals +", sets |-> [bet_type |-> "Over 2.5", is_won |-> TRUE]],
      [text |-> "^ Points - 5", sets |-> [stake |-> 5]],
      [text |-> "# Odds - 1.37", sets |-> [odds |-> 1370]],
      [text |-> "Under 1.5 Goals", sets |-> [bet_type |-> "Under 1.5"]],
      [text |-> "FT: 2-0", sets |-> [home_score |-> 2, away_score |-> 0]],
      [text |-> "! Result - Lost", sets |-> [is_won |-> FALSE]],
      [text |-> "^ Points - 12", sets |-> [stake |-> 10]]>>

\* A message is up to MaxLines different lines in some order.
Messages ==
    {m \in UNION {[1..n -> DOMAIN MessageLines] : n \in 1..MaxLines} :
        \A i, j \in DOMAIN m : i # j => m[i] # m[j]}

RECURSIVE Join(_, _)
\* sep.join(lines)
Join(lines, sep) ==
    IF Len(lines) = 1 THEN lines[1] ELSE lines[1] \o sep \o Join(Tail(lines), sep)

MessageText(m) == Join([i \in DOMAIN m |-> MessageLines[m[i]].text], "\n")

\* A call of parse_telegram_message(text).
Start_parse_telegram_message(p, track) ==
    /\ \E m \in Messages :
         Begin(p, "parse_telegram_message", "body", Token("missing", None),
               [lines |-> m, text |-> MessageText(m)], NoArg, track)
    /\ UNCHANGED <<db, world>>

parse_telegram_message_return(p) ==
    /\ At(p, "parse_telegram_message", "body")
    /\ RespondWith(p, 200, "", [parsed |-> parse_telegram_message(req[p].arg.text)])
    /\ UNCHANGED <<db, world, hist>>

\* The clock moves on.
Tick ==
    /\ clock < 24 * MaxDays
    /\ clock' = clock + 24
    /\ UNCHANGED <<db, stripe, env, uuids, req, hist>>

\* ------------------------------------------------------- specifications
IdleSlots == [p \in Procs |-> Idle]
NoHistory == [p \in Procs |-> NoHist]

\* Two registered users, nothing else stored.
TwoUsers ==
    <<NewUser(1, "a@x.io", hash_password("pw1", "s1")),
      NewUser(2, "b@x.io", hash_password("pw2", "s1"))>>

\* The collaborators' keys are set in the environment, or one is missing.
Environments ==
    {[STRIPE_API_KEY |-> TRUE, TELEGRAM_BOT_TOKEN |-> TRUE],
     [STRIPE_API_KEY |-> FALSE, TELEGRAM_BOT_TOKEN |-> TRUE],
     [STRIPE_API_KEY |-> TRUE, TELEGRAM_BOT_TOKEN |-> FALSE]}

InitPay ==
    /\ users = TwoUsers
    /\ payment_transactions = <<>>
    /\ bets = <<>>
    /\ notifications = <<>>
    /\ stripe = <<>>
    /\ env \in {e \in Environments : e.TELEGRAM_BOT_TOKEN}
    /\ clock = 0
    /\ uuids = 0
    /\ req = IdleSlots
    /\ hist = NoHistory

PayStep(p, track) ==
    \/ Start_create_checkout(p, track)
    \/ Start_get_checkout_status(p, track)
    \/ Start_stripe_webhook(p, track)
    \/ get_current_user(p)
    \/ create_checkout_session(p)
    \/ create_checkout_insert(p)
    \/ get_checkout_status_provider(p)
    \/ get_checkout_status_find(p)
    \/ get_checkout_status_update_transaction(p)
    \/ get_checkout_status_update_user(p)
    \/ stripe_webhook_handle(p)
    \/ stripe_webhook_update_transaction(p)
    \/ stripe_webhook_update_user(p)
    \/ Return(p)

NextPay ==
    \/ \E p \in Procs : PayStep(p, FALSE)
    \/ \E s \in 1..MaxSessions : ProviderPays(s)

\* Requests one at a time: slot 1 only, its starting store recorded.
NextPaySeq ==
    \/ PayStep(1, TRUE)
    \/ \E s \in 1..MaxSessions : ProviderPays(s)

SpecPay == InitPay /\ [][NextPay]_vars

SpecPaySeq == InitPay /\ [][NextPaySeq]_vars

\* Checkouts are started and paid while the provider, and others, deliver
\* webhooks, one request at a time; a store call of the webhook may raise.
NextWebhookSeq ==
    \/ Start_create_checkout(1, TRUE)
    \/ Start_stripe_webhook(1, TRUE)
    \/ Start_stripe_webhook_unsigned(1, TRUE)
    \/ get_current_user(1)
    \/ create_checkout_session(1)
    \/ create_checkout_insert(1)
    \/ stripe_webhook_handle(1)
    \/ stripe_webhook_update_transaction(1)
    \/ stripe_webhook_update_user(1)
    \/ stripe_webhook_update_raises(1)
    \/ Return(1)
    \/ \E s \in 1..MaxSessions : ProviderPays(s)

SpecWebhookSeq == InitPay /\ [][NextWebhookSeq]_vars

\* User 1 has been elevated with the admin code, user 2 has not.
AdminAndUser == <<GrantAdmin(TwoUsers[1]), TwoUsers[2]>>

InitImport ==
    /\ users = AdminAndUser
    /\ payment_transactions = <<>>
    /\ bets = <<>>
    /\ notifications = <<>>
    /\ stripe = <<>>
    /\ env \in {e \in Environments : e.STRIPE_API_KEY}
    /\ clock = 0
    /\ uuids = 0
    /\ req = IdleSlots
    /\ hist = NoHistory

\* Imports from the channel, concurrently.
NextImport ==
    \E p \in Procs :
        \/ Start_import_from_telegram(p, FALSE)
        \/ get_admin_user(p)
        \/ import_from_telegram_fetch(p, Fetches)
        \/ import_from_telegram_find(p)
        \/ import_from_telegram_insert(p)
        \/ Return(p)

\* The import routes and delete_bet, one request at a time.
NextImportSeq ==
    \/ Start_import_from_telegram(1, TRUE)
    \/ Start_get_telegram_updates(1, TRUE)
    \/ Start_import_manual_telegram(1, TRUE, ManualTexts)
    \/ Start_delete_bet(1, TRUE)
    \/ get_admin_user(1)
    \/ import_from_telegram_fetch(1, Fetches)
    \/ import_from_telegram_find(1)
    \/ import_from_telegram_insert(1)
    \/ get_telegram_updates(1, Fetches)
    \/ import_manual_telegram(1)
    \/ delete_bet(1)
    \/ Return(1)
    \/ Tick

\* The imports and the free listings, one request at a time.
NextImportList ==
    \/ Start_import_from_telegram(1, TRUE)
    \/ Start_import_manual_telegram(1, TRUE, ManualTexts)
    \/ Start_get_today_bets(1, TRUE)
    \/ Start_get_results(1, TRUE)
    \/ get_admin_user(1)
    \/ import_from_telegram_fetch(1, Fetches)
    \/ import_from_telegram_find(1)
    \/ import_from_telegram_insert(1)
    \/ import_manual_telegram(1)
    \/ get_today_bets(1)
    \/ get_results(1)
    \/ Return(1)
    \/ Tick

SpecImportList == InitImport /\ [][NextImportList]_vars

SpecImport == InitImport /\ [][NextImport]_vars

SpecImportSeq == InitImport /\ [][NextImportSeq]_vars

\* User 2 has started a checkout that is still open; nobody is admin or VIP.
InitAdmin ==
    /\ users = TwoUsers
    /\ payment_transactions = <<[session_id |-> 1, user_id |-> 2, payment_status |-> "pending"]>>
    /\ bets = <<>>
    /\ notifications = <<>>
    /\ stripe = <<[metadata |-> [user_id |-> 2], payment_status |-> "unpaid"]>>
    /\ env = [STRIPE_API_KEY |-> TRUE, TELEGRAM_BOT_TOKEN |-> TRUE]
    /\ clock = 0
    /\ uuids = 0
    /\ req = IdleSlots
    /\ hist = NoHistory

\* The request bodies the admin sends in this specification.
AdminBetData ==
    {[home_team |-> "Ajax", away_team |-> "PSV", league |-> "Eredivisie",
      bet_type |-> "Over 2.5 Goals", odds |-> 1850, stake |-> 5,
      kick_off |-> IsoFormat(10),
      is_vip |-> TRUE]}

AdminUpdates == {[bet_id |-> 1, status |-> "won", home_score |-> 2, away_score |-> 1]}

AdminAnswers ==
    {f \in Fetches : f.outcome = "not_ok" \/ (f.outcome = "ok" /\ Len(f.updates) = 1
                                                 /\ f.updates[1].message_id = 2)}

AdminTexts == {"", "Lyon vs Nice\nBTTS Yes\n! Result - Lost 0-1"}

\* Elevation, the paid-session routes, the VIP listings and the admin
\* operations, one request at a time.
NextAdmin ==
    \/ Start_verify_admin(1, TRUE)
    \/ Start_get_checkout_status(1, TRUE)
    \/ Start_stripe_webhook(1, TRUE)
    \/ Start_get_vip_bets(1, TRUE)
    \/ Start_create_bet(1, TRUE, AdminBetData)
    \/ Start_update_bet_result(1, TRUE, AdminUpdates)
    \/ Start_delete_bet(1, TRUE)
    \/ Start_get_all_bets(1, TRUE)
    \/ Start_import_from_telegram(1, TRUE)
    \/ Start_import_manual_telegram(1, TRUE, AdminTexts)
    \/ Start_send_notification(1, TRUE)
    \/ get_current_user(1)
    \/ get_admin_user(1)
    \/ verify_admin(1)
    \/ get_checkout_status_provider(1)
    \/ get_checkout_status_find(1)
    \/ get_checkout_status_update_transaction(1)
    \/ get_checkout_status_update_user(1)
    \/ stripe_webhook_handle(1)
    \/ stripe_webhook_update_transaction(1)
    \/ stripe_webhook_update_user(1)
    \/ get_vip_bets(1)
    \/ create_bet(1)
    \/ update_bet_result(1)
    \/ delete_bet(1)
    \/ get_all_bets(1)
    \/ import_from_telegram_fetch(1, AdminAnswers)
    \/ import_from_telegram_find(1)
    \/ import_from_telegram_insert(1)
    \/ import_manual_telegram(1)
    \/ send_notification_insert(1)
    \/ send_notification_count(1)
    \/ Return(1)
    \/ \E s \in 1..MaxSessions : ProviderPays(s)

SpecAdmin == InitAdmin /\ [][NextAdmin]_vars

\* An empty store.
InitAuth ==
    /\ users = <<>>
    /\ payment_transactions = <<>>
    /\ bets = <<>>
    /\ notifications = <<>>
    /\ stripe = <<>>
    /\ env = [STRIPE_API_KEY |-> TRUE, TELEGRAM_BOT_TOKEN |-> TRUE]
    /\ clock = 0
    /\ uuids = 0
    /\ req = IdleSlots
    /\ hist = NoHistory

\* Registration, login, the profile and elevation, one request at a time.
NextAuthSeq ==
    \/ Start_register(1, TRUE)
    \/ Start_login(1, TRUE)
    \/ Start_get_me(1, TRUE)
    \/ Start_verify_admin(1, TRUE)
    \/ register_find(1)
    \/ register_insert(1)
    \/ login(1)
    \/ get_current_user(1)
    \/ get_me(1)
    \/ verify_admin(1)
    \/ Return(1)

SpecAuthSeq == InitAuth /\ [][NextAuthSeq]_vars

\* Registrations and logins from every slot, their steps interleaved.
NextAuth ==
    \E p \in Procs :
        \/ Start_register(p, FALSE)
        \/ Start_login(p, FALSE)
        \/ register_find(p)
        \/ register_insert(p)
        \/ login(p)
        \/ Return(p)

SpecAuth == InitAuth /\ [][NextAuth]_vars

\* Two freshly registered users: elevation, the payment routes, the VIP
\* listings and two admin routes, one request at a time.
NextFreshSeq ==
    \/ Start_verify_admin(1, TRUE)
    \/ Start_get_vip_bets(1, TRUE)
    \/ Start_get_all_bets(1, TRUE)
    \/ Start_delete_bet(1, TRUE)
    \/ verify_admin(1)
    \/ get_vip_bets(1)
    \/ get_admin_user(1)
    \/ get_all_bets(1)
    \/ delete_bet(1)
    \/ PayStep(1, TRUE)
    \/ \E s \in 1..MaxSessions : ProviderPays(s)

SpecFreshSeq == InitPay /\ [][NextFreshSeq]_vars

\* User 1 is an admin; user 2 has paid checkout session 1 and is VIP.
InitBets ==
    /\ users = <<GrantAdmin(TwoUsers[1]), GrantVip(TwoUsers[2], 1)>>
    /\ payment_transactions = <<[session_id |-> 1, user_id |-> 2, payment_status |-> "paid"]>>
    /\ bets = <<>>
    /\ notifications = <<>>
    /\ stripe = <<[metadata |-> [user_id |-> 2], payment_status |-> "paid"]>>
    /\ env = [STRIPE_API_KEY |-> TRUE, TELEGRAM_BOT_TOKEN |-> TRUE]
    /\ clock = 0
    /\ uuids = 0
    /\ req = IdleSlots
    /\ hist = NoHistory

\* kick_off strings the admin sends: 10:00+00:00 and 11:00+02:00 on day 0,
\* 01:00+02:00 and 06:00+00:00 on day 1.
KickOffs ==
    {[local |-> 10, offset |-> 0], [local |-> 11, offset |-> 2],
     [local |-> 25, offset |-> 2], [local |-> 30, offset |-> 0]}

BetsBetData ==
    {[home_team |-> "Ajax", away_team |-> "PSV", league |-> "Eredivisie",
      bet_type |-> "Over 2.5 Goals", odds |-> 1850, stake |-> 5,
      kick_off |-> k, is_vip |-> v] : k \in KickOffs, v \in BOOLEAN}

BetsUpdates ==
    {[bet_id |-> b, status |-> st, home_score |-> NoScore, away_score |-> NoScore] :
        b \in 1..MaxBets, st \in {"pending", "won", "lost"}}

\* The admin creates, settles and deletes picks while the listings are read,
\* one request at a time.
NextBets ==
    \/ Start_create_bet(1, TRUE, BetsBetData)
    \/ Start_update_bet_result(1, TRUE, BetsUpdates)
    \/ Start_delete_bet(1, TRUE)
    \/ Start_get_today_bets(1, TRUE)
    \/ Start_get_vip_bets(1, TRUE)
    \/ Start_get_results(1, TRUE)
    \/ get_current_user(1)
    \/ get_admin_user(1)
    \/ create_bet(1)
    \/ update_bet_result(1)
    \/ delete_bet(1)
    \/ get_today_bets(1)
    \/ get_vip_bets(1)
    \/ get_results(1)
    \/ Return(1)
    \/ Tick

SpecBets == InitBets /\ [][NextBets]_vars

\* The picks in the store when the statistics are read: two more than the
\* admin creates elsewhere, so that three can be won and one lost.
StatsBets == MaxBets + 2

\* The admin has created StatsBets picks, free and VIP in turn, none settled.
InitStats ==
    /\ users = AdminAndUser
    /\ payment_transactions = <<>>
    /\ bets = [i \in 1..StatsBets |->
                 BetDoc(i, [home_team |-> "Ajax", away_team |-> "PSV",
                            league |-> "Eredivisie", bet_type |-> "Over 2.5 Goals",
                            odds |-> 1850, stake |-> 5, kick_off |-> IsoFormat(10),
                            is_vip |-> (i % 2 = 0)])]
    /\ notifications = <<>>
    /\ stripe = <<>>
    /\ env = [STRIPE_API_KEY |-> TRUE, TELEGRAM_BOT_TOKEN |-> TRUE]
    /\ clock = 0
    /\ uuids = StatsBets
    /\ req = IdleSlots
    /\ hist = NoHistory

StatsUpdates ==
    {[bet_id |-> b, status |-> st, home_score |-> NoScore, away_score |-> NoScore] :
        b \in 1..StatsBets, st \in {"pending", "won", "lost"}}

\* The admin settles, reopens and deletes picks while the statistics are
\* read, one request at a time.
NextStats ==
    \/ Start_update_bet_result(1, TRUE, StatsUpdates)
    \/ Start_delete_bet(1, TRUE)
    \/ Start_get_stats(1, TRUE)
    \/ get_admin_user(1)
    \/ update_bet_result(1)
    \/ delete_bet(1)
    \/ get_stats_total(1)
    \/ get_stats_won(1)
    \/ Return(1)

SpecStats == InitStats /\ [][NextStats]_vars

\* The parser is called on one message after another.
NextParse ==
    \/ Start_parse_telegram_message(1, TRUE)
    \/ parse_telegram_message_return(1)
    \/ Return(1)

SpecParse == InitAuth /\ [][NextParse]_vars

\* BetUpdate bodies: status is any string the admin sends, each score is an
\* int or left out.
SettleUpdates ==
    {[bet_id |-> b, status |-> st, home_score |-> h, away_score |-> a] :
        b \in 1..MaxBets, st \in {"pending", "won", "void"},
        h \in {NoScore, 0}, a \in {NoScore, 1}}

\* The admin creates picks and settles them again and again, one request at a
\* time.
NextSettle ==
    \/ Start_create_bet(1, TRUE, AdminBetData)
    \/ Start_update_bet_result(1, TRUE, SettleUpdates)
    \/ get_admin_user(1)
    \/ create_bet(1)
    \/ update_bet_result(1)
    \/ Return(1)

SpecSettle == InitImport /\ [][NextSettle]_vars

\* The statistics are read by one request while another imports, settles,
\* reopens or deletes picks: the steps of the two interleave at every awaited
\* store call.
NextStatsRace ==
    \/ Start_get_stats(1, FALSE)
    \/ get_stats_total(1)
    \/ get_stats_won(1)
    \/ Return(1)
    \/ Start_import_manual_telegram(2, FALSE, ManualTexts)
    \/ Start_update_bet_result(2, FALSE, BetsUpdates)
    \/ Start_delete_bet(2, FALSE)
    \/ get_admin_user(2)
    \/ import_manual_telegram(2)
    \/ update_bet_result(2)
    \/ delete_bet(2)
    \/ Return(2)

SpecStatsRace == InitImport /\ [][NextStatsRace]_vars

\* ------------------------------------------------------------ properties
Sessions == 1..MaxSessions

StoredPaid(transactions, s) ==
    \E i \in 1..Len(transactions) :
        transactions[i].session_id = s /\ transactions[i].payment_status = "paid"

\* Request p has finished handling a paid event for session s: a poll the
\* provider answered paid, or a verified webhook event whose status is paid.
AppliedPaidEvent(p, s) ==
    /\ req[p].pc = "done"
    /\ \/ /\ req[p].op = "get_checkout_status"
          /\ req[p].arg.session_id = s
          /\ req[p].resp.detail = "paid"
       \/ /\ req[p].op = "stripe_webhook"
          /\ req[p].arg.valid
          /\ req[p].arg.session_id = s
          /\ req[p].arg.payment_status = "paid"

UsersAndTransactionsAsAtStart(p) ==
    /\ users = hist[p].users
    /\ payment_transactions = hist[p].payment_transactions

\* C1: a paid event applied to a session whose stored transaction was already
\* paid when the call started (a second application) grants nothing: it leaves
\* users and transactions as they were and answers without error.
C1_SecondApplicationIsNoOp ==
    \A p \in Procs, s \in Sessions :
        (/\ hist[p].tracked
         /\ AppliedPaidEvent(p, s)
         /\ StoredPaid(hist[p].payment_transactions, s))
        => (UsersAndTransactionsAsAtStart(p) /\ req[p].resp.status = 200)

\* Request p is past its check of a paid event for session s and is about to
\* write, or has written, the paid transition.
PerformsPaidTransition(p, s) ==
    /\ req[p].op \in {"get_checkout_status", "stripe_webhook"}
    /\ req[p].pc \in {"update_transaction", "update_user"}
    /\ req[p].arg.session_id = s

\* C2: of a poll and another poll or webhook in flight together for the same
\* paid session, at most one performs the pending->paid update and the grant.
C2_AtMostOneCallApplies ==
    \A p, q \in Procs, s \in Sessions :
        (/\ p # q
         /\ req[p].op = "get_checkout_status"
         /\ PerformsPaidTransition(p, s))
        => ~PerformsPaidTransition(q, s)

\* C3: every VIP user started a checkout session that the provider reports paid.
C3_VipOnlyByOwnPaidSession ==
    \A i \in 1..Len(users) :
        users[i].is_vip =>
            \E s \in 1..Len(stripe) :
                /\ stripe[s].metadata.user_id = users[i].id
                /\ stripe[s].payment_status = "paid"

\* Sessions s1 and then s2 of user u had both been applied when p started.
AppliedInOrder(h, u, s1, s2) ==
    /\ s1 # s2
    /\ s1 <= Len(stripe) /\ s2 <= Len(stripe)
    /\ stripe[s1].metadata.user_id = u /\ stripe[s2].metadata.user_id = u
    /\ StoredPaid(h.payment_transactions, s1)
    /\ StoredPaid(h.payment_transactions, s2)
    /\ \E i \in 1..Len(h.users) :
          /\ h.users[i].id = u
          /\ h.users[i].is_vip
          /\ h.users[i].subscription_status = "active"
          /\ h.users[i].subscription_id = s2

\* C4: once s1 and then s2 of one user are applied, a re-delivery of s1's paid
\* event changes neither transaction nor the user's subscription fields.
C4_RedeliveryIsNoOp ==
    \A p \in Procs, s1 \in Sessions, s2 \in Sessions, u \in 1..Len(users) :
        (/\ hist[p].tracked
         /\ AppliedPaidEvent(p, s1)
         /\ AppliedInOrder(hist[p], u, s1, s2))
        => UsersAndTransactionsAsAtStart(p)

ParseablePositions(updates) == {i \in 1..Len(updates) : Parseable(updates[i])}

ParseableIds(updates) == {updates[i].message_id : i \in ParseablePositions(updates)}

StoredMessageIds(stored) ==
    {stored[i].telegram_message_id : i \in 1..Len(stored)} \ {None}

\* The parseable messages of the fetched set are different messages.
DistinctMessages(updates) ==
    \A i, j \in ParseablePositions(updates) :
        i # j => updates[i].message_id # updates[j].message_id

ImportRunDone(p) ==
    /\ hist[p].tracked
    /\ req[p].op = "import_from_telegram"
    /\ req[p].pc = "done"
    /\ req[p].resp.status = 200

\* C5: a run over N parseable messages none of which is stored yet answers
\* imported = N, skipped = 0 and leaves all N stored; a run over messages that
\* are all stored (the same set again) answers imported = 0, skipped = N and
\* adds no bet.
C5_ImportTwice ==
    \A p \in Procs :
        (ImportRunDone(p) /\ DistinctMessages(req[p].loc.updates)) =>
            LET ids == ParseableIds(req[p].loc.updates)
                N == Cardinality(ParseablePositions(req[p].loc.updates))
                before == StoredMessageIds(hist[p].bets)
            IN  /\ (ids \cap before = {}) =>
                       /\ req[p].loc.imported = N /\ req[p].loc.skipped = 0
                       /\ ids \subseteq StoredMessageIds(bets)
                       /\ Len(bets) = Len(hist[p].bets) + N
                /\ (ids \subseteq before) =>
                       /\ req[p].loc.imported = 0 /\ req[p].loc.skipped = N
                       /\ bets = hist[p].bets

\* A second run over the same two messages has answered imported 0, skipped 2.
C5_Witness ==
    \E p \in Procs :
        /\ ImportRunDone(p)
        /\ DistinctMessages(req[p].loc.updates)
        /\ ParseableIds(req[p].loc.updates) = {1, 2}
        /\ ParseableIds(req[p].loc.updates) \subseteq StoredMessageIds(hist[p].bets)
        /\ req[p].loc.skipped = 2

\* C6: no two bets carry the same message identifier.
C6_NoDuplicateMessageId ==
    \A i, j \in 1..Len(bets) :
        (i # j /\ bets[i].telegram_message_id # None)
            => bets[i].telegram_message_id # bets[j].telegram_message_id

\* The user a request's token stood for when the request started: the document
\* get_current_user would have returned, in a one-element sequence, or <<>>.
CallerAtStart(p) ==
    IF req[p].token.kind = "valid"
       /\ \E i \in 1..Len(hist[p].users) : hist[p].users[i].id = req[p].token.user_id
    THEN <<CHOOSE u \in {hist[p].users[i] : i \in 1..Len(hist[p].users)} :
                u.id = req[p].token.user_id>>
    ELSE <<>>

\* The admin operations the claim lists.
PickAdminOps ==
    {"create_bet", "update_bet_result", "delete_bet", "get_all_bets",
     "import_from_telegram", "import_manual_telegram", "send_notification"}

\* C7: an admin operation whose caller is not a stored admin never changes the
\* bets (or the notifications) and ends with 403, or with 401 when the request
\* carries no valid session.
C7_NonAdminRefused ==
    \A p \in Procs :
        (/\ hist[p].tracked
         /\ req[p].op \in PickAdminOps
         /\ (CallerAtStart(p) = <<>> \/ ~CallerAtStart(p)[1].is_admin))
        => /\ bets = hist[p].bets
           /\ notifications = hist[p].notifications
           /\ req[p].pc \in {"auth", "done"}
           /\ req[p].pc = "done" =>
                  req[p].resp.status = IF CallerAtStart(p) = <<>> THEN 401 ELSE 403

\* A registered user who is not admin has been refused the deletion of a stored bet.
C7_Witness ==
    \E p \in Procs :
        /\ hist[p].tracked
        /\ req[p].op = "delete_bet" /\ req[p].pc = "done"
        /\ CallerAtStart(p) # <<>> /\ ~CallerAtStart(p)[1].is_admin
        /\ BetIndex(req[p].arg.bet_id) # 0
        /\ req[p].resp.status = 403

VerifyAdminDone(p) ==
    /\ hist[p].tracked
    /\ req[p].op = "verify_admin" /\ req[p].pc = "done"
    /\ CallerAtStart(p) # <<>>

\* C8: verify_admin with the admin code, called by an authenticated user,
\* answers 200 and sets that user's is_admin; every other field of every user
\* (other users' is_admin, everyone's is_vip and subscription) is as before.
C8_ElevationSetsOnlyCallerAdmin ==
    \A p \in Procs :
        (VerifyAdminDone(p) /\ req[p].arg.code = ADMIN_CODE) =>
            /\ req[p].resp.status = 200
            /\ Len(users) = Len(hist[p].users)
            /\ \A i \in 1..Len(users) :
                  users[i] = IF hist[p].users[i].id = req[p].token.user_id
                             THEN [hist[p].users[i] EXCEPT !.is_admin = TRUE]
                             ELSE hist[p].users[i]

\* A VIP user has been elevated while the other user is not an admin.
C8_Witness ==
    \E p \in Procs :
        /\ VerifyAdminDone(p) /\ req[p].arg.code = ADMIN_CODE
        /\ CallerAtStart(p)[1].is_vip /\ ~CallerAtStart(p)[1].is_admin
        /\ \E i \in 1..Len(users) : ~users[i].is_admin

\* C9: verify_admin with any other code answers 403 and leaves every user
\* (and the rest of the store) as it was.
C9_WrongCodeRefused ==
    \A p \in Procs :
        (VerifyAdminDone(p) /\ req[p].arg.code # ADMIN_CODE) =>
            /\ req[p].resp.status = 403
            /\ users = hist[p].users
            /\ payment_transactions = hist[p].payment_transactions
            /\ bets = hist[p].bets
            /\ notifications = hist[p].notifications

\* A user who is not admin has been refused with a wrong code.
C9_Witness ==
    \E p \in Procs :
        /\ VerifyAdminDone(p) /\ req[p].arg.code # ADMIN_CODE
        /\ ~CallerAtStart(p)[1].is_admin
        /\ req[p].resp.status = 403

SameFlag(before, after, flag) ==
    /\ Len(before) = Len(after)
    /\ \A i \in 1..Len(before) : before[i][flag] = after[i][flag]

\* C10: an admin who is not VIP is refused both VIP listings with 403; a VIP
\* who is not admin is refused every admin operation with 403; elevation
\* changes nobody's is_vip and a paid event changes nobody's is_admin.
C10_AdminAndVipIndependent ==
    \A p \in Procs :
        (hist[p].tracked /\ req[p].pc = "done") =>
            /\ (/\ req[p].op \in {"get_vip_today_bets", "get_vip_results"}
                /\ CallerAtStart(p) # <<>>
                /\ CallerAtStart(p)[1].is_admin /\ ~CallerAtStart(p)[1].is_vip)
               => req[p].resp.status = 403
            /\ (/\ req[p].op \in AdminOps
                /\ CallerAtStart(p) # <<>>
                /\ CallerAtStart(p)[1].is_vip /\ ~CallerAtStart(p)[1].is_admin)
               => req[p].resp.status = 403
            /\ req[p].op = "verify_admin" => SameFlag(hist[p].users, users, "is_vip")
            /\ (\E s \in Sessions : AppliedPaidEvent(p, s))
               => SameFlag(hist[p].users, users, "is_admin")

\* An admin who is not VIP has been refused a VIP listing while the other user
\* is a VIP who is not admin.
C10_Witness ==
    \E p \in Procs :
        /\ hist[p].tracked /\ req[p].pc = "done"
        /\ req[p].op = "get_vip_results"
        /\ CallerAtStart(p) # <<>>
        /\ CallerAtStart(p)[1].is_admin /\ ~CallerAtStart(p)[1].is_vip
        /\ req[p].resp.status = 403
        /\ \E i \in 1..Len(users) : users[i].is_vip /\ ~users[i].is_admin

\* C11: a request is authorized by the stored flags of the user its token
\* names: with a token from registration, an admin operation of a user who is
\* admin when the request starts is not refused (no 401, no 403), and a VIP
\* listing of a user who is VIP then answers 200.
C11_FlagsReadFromStore ==
    \A p \in Procs :
        (hist[p].tracked /\ req[p].pc = "done" /\ CallerAtStart(p) # <<>>) =>
            /\ (req[p].op \in AdminOps /\ CallerAtStart(p)[1].is_admin)
               => req[p].resp.status \notin {401, 403}
            /\ (/\ req[p].op \in {"get_vip_today_bets", "get_vip_results"}
                /\ CallerAtStart(p)[1].is_vip)
               => req[p].resp.status = 200

\* An elevated user who is also VIP by now has listed all bets with the token
\* from registration.
C11_Witness ==
    \E p \in Procs :
        /\ hist[p].tracked /\ req[p].pc = "done"
        /\ req[p].op = "get_all_bets"
        /\ CallerAtStart(p) # <<>>
        /\ CallerAtStart(p)[1].is_admin /\ CallerAtStart(p)[1].is_vip
        /\ req[p].resp.status = 200

EmailStored(stored, email) == \E i \in 1..Len(stored) : stored[i].email = email

\* C12: register with an email that is stored when the call starts answers 400
\* "Email already registered", returns no token and leaves users as they were.
C12_DuplicateRegistrationRefused ==
    \A p \in Procs :
        (/\ hist[p].tracked
         /\ req[p].op = "register" /\ req[p].pc = "done"
         /\ EmailStored(hist[p].users, req[p].arg.email))
        => /\ req[p].resp = [status |-> 400, detail |-> "Email already registered"]
           /\ req[p].loc = NoArg
           /\ users = hist[p].users

\* A registration with the email of an elevated user, under another password,
\* has been refused.
C12_Witness ==
    \E p \in Procs :
        /\ hist[p].tracked
        /\ req[p].op = "register" /\ req[p].pc = "done"
        /\ req[p].resp.status = 400
        /\ \E i \in 1..Len(users) :
              /\ users[i].email = req[p].arg.email
              /\ users[i].is_admin
              /\ ~verify_password(req[p].arg.password, users[i].password_hash)

LoginDone(p) == hist[p].tracked /\ req[p].op = "login" /\ req[p].pc = "done"

\* The stored user the credentials of request p belong to, if any.
Authentic(p) ==
    {i \in 1..Len(hist[p].users) :
        /\ hist[p].users[i].email = req[p].arg.email
        /\ verify_password(req[p].arg.password, hist[p].users[i].password_hash)}

StoreAsAtStart(p) ==
    /\ users = hist[p].users
    /\ payment_transactions = hist[p].payment_transactions
    /\ bets = hist[p].bets
    /\ notifications = hist[p].notifications

\* C13: login with a stored email and its password answers 200 with a token
\* for that user; with a wrong password or an unknown email it answers the
\* same 401 "Invalid credentials" and no token; it never changes the store.
C13_LoginResults ==
    \A p \in Procs :
        LoginDone(p) =>
            /\ StoreAsAtStart(p)
            /\ IF Authentic(p) # {}
               THEN /\ req[p].resp.status = 200
                    /\ \E i \in Authentic(p) :
                          /\ req[p].loc.token = create_token(hist[p].users[i].id)
                          /\ req[p].loc.user = UserResponse(hist[p].users[i])
               ELSE /\ req[p].resp = [status |-> 401, detail |-> "Invalid credentials"]
                    /\ req[p].loc = NoArg

\* A login with a wrong password for a stored email has been refused while the
\* other email is not registered.
C13_Witness ==
    \E p \in Procs :
        /\ LoginDone(p)
        /\ EmailStored(users, req[p].arg.email)
        /\ Authentic(p) = {}
        /\ \E email \in Emails : ~EmailStored(users, email)
        /\ req[p].resp.status = 401

\* The provider reports a paid checkout session started by the user.
HasPaidSession(user) ==
    \E s \in 1..Len(stripe) :
        stripe[s].metadata.user_id = user.id /\ stripe[s].payment_status = "paid"

\* C14: a user registered with is_vip and is_admin false is refused with 403
\* every admin operation until elevated, and every VIP listing until one of
\* their own sessions is paid.
C14_FreshUserRefused ==
    \A p \in Procs :
        (hist[p].tracked /\ req[p].pc = "done" /\ CallerAtStart(p) # <<>>) =>
            /\ (req[p].op \in AdminOps /\ ~CallerAtStart(p)[1].is_admin)
               => req[p].resp.status = 403
            /\ (/\ req[p].op \in {"get_vip_today_bets", "get_vip_results"}
                /\ ~HasPaidSession(CallerAtStart(p)[1]))
               => req[p].resp.status = 403

\* The picks of a stored sequence.
Range(s) == {s[i] : i \in DOMAIN s}

\* A finished upcoming listing of the free or the VIP tier.
UpcomingDone(p) ==
    /\ hist[p].tracked
    /\ req[p].pc = "done"
    /\ req[p].op \in {"get_today_bets", "get_vip_today_bets"}
    /\ req[p].resp.status = 200

\* The picks an upcoming listing of the tier is to return on the given day.
Upcoming(vip, today) ==
    {b \in Range(bets) : b.date = today /\ b.status = "pending" /\ b.is_vip = vip}

\* C15: an upcoming listing returns exactly the pending picks of the requested
\* tier whose date bucket is today, each once, ordered by the instant they are
\* scheduled to start, earliest first.
C15_UpcomingListing ==
    \A p \in Procs :
        UpcomingDone(p) =>
            LET listed == req[p].loc.bets
            IN  /\ Range(listed) = Upcoming(req[p].op = "get_vip_today_bets", req[p].loc.today)
                /\ \A i, j \in DOMAIN listed :
                     i < j => /\ listed[i] # listed[j]
                              /\ FromIsoFormat(listed[i].kick_off)
                                    <= FromIsoFormat(listed[j].kick_off)

StatsDone(p) == hist[p].tracked /\ req[p].pc = "done" /\ req[p].op = "get_stats"

\* The number of stored picks whose status is one of the given ones.
CountStatus(statuses) == Cardinality({i \in DOMAIN bets : bets[i].status \in statuses})

\* win_rate (in tenths of a percent) is won / total * 100 to one decimal: no
\* other tenth is nearer to the quotient.
NearestTenth(win_rate, won, total) ==
    LET diff == win_rate * total - 1000 * won
    IN  2 * (IF diff < 0 THEN -diff ELSE diff) <= total

\* C16: the statistics count the won and lost picks of both tiers, lost is the
\* total less won, and the win rate is won / total * 100 to one decimal, 0 when
\* nothing is settled and 75.0 for three won and one lost.
C16_Stats ==
    \A p \in Procs :
        StatsDone(p) =>
            LET stats == req[p].loc
            IN  /\ stats.total_bets = CountStatus({"won", "lost"})
                /\ stats.won_bets = CountStatus({"won"})
                /\ stats.lost_bets = stats.total_bets - stats.won_bets
                /\ stats.lost_bets = CountStatus({"lost"})
                /\ IF stats.total_bets = 0
                   THEN stats.win_rate = 0
                   ELSE NearestTenth(stats.win_rate, stats.won_bets, stats.total_bets)
                /\ (stats.won_bets = 3 /\ stats.lost_bets = 1) => stats.win_rate = 750

\* Three won and one lost, settled picks of both tiers among them, and the
\* statistics answer 75.0.
C16_Witness ==
    \E p \in Procs :
        /\ StatsDone(p)
        /\ CountStatus({"won"}) = 3
        /\ CountStatus({"lost"}) = 1
        /\ \E i, j \in DOMAIN bets :
             /\ bets[i].status = "won" /\ bets[i].is_vip
             /\ bets[j].status = "won" /\ ~bets[j].is_vip
        /\ req[p].loc.win_rate = 750

\* A finished update or delete by an admin, for an id no pick had when the
\* request started.
UnknownIdDone(p) ==
    /\ hist[p].tracked
    /\ req[p].pc = "done"
    /\ req[p].op \in {"update_bet_result", "delete_bet"}
    /\ CallerAtStart(p) # <<>>
    /\ CallerAtStart(p)[1].is_admin
    /\ \A b \in Range(hist[p].bets) : b.id # req[p].arg.bet_id

\* C17: updating or deleting an id that no pick has answers 404 'Bet not
\* found' and leaves the picks as they were; so does deleting a pick a second
\* time.
C17_UnknownIdNotFound ==
    \A p \in Procs :
        UnknownIdDone(p) =>
            /\ req[p].resp = [status |-> 404, detail |-> "Bet not found"]
            /\ bets = hist[p].bets

\* A pick that was created and deleted is deleted again, another pick being
\* in the store.
C17_Witness ==
    \E p \in Procs :
        /\ UnknownIdDone(p)
        /\ req[p].op = "delete_bet"
        /\ req[p].arg.bet_id <= uuids
        /\ bets # <<>>
        /\ req[p].resp.status = 404

ParseDone(p) ==
    hist[p].tracked /\ req[p].pc = "done" /\ req[p].op = "parse_telegram_message"

RECURSIVE FieldsOf(_, _)
\* The fields after the lines of the message, each line writing the fields of
\* its rule over the ones before.
FieldsOf(st, m) ==
    IF m = <<>> THEN st
    ELSE LET sets == MessageLines[Head(m)].sets
         IN  FieldsOf([f \in DOMAIN st |-> IF f \in DOMAIN sets THEN sets[f] ELSE st[f]],
                      Tail(m))

SampleMessage == "Marseille v Rennes\n@ Over 2.5 Goals +\n^ Points - 5\n# Odds - 1.37"

SampleParsed ==
    [home_team |-> "Marseille", away_team |-> "Rennes", bet_type |-> "Over 2.5",
     stake |-> 5, odds |-> 1370, is_won |-> TRUE, home_score |-> NoScore,
     away_score |-> NoScore]

\* C18: the sample message parses to Marseille, Rennes, Over 2.5, stake 5, odds
\* 1.37, won; and for every message each field is what the last line of its
\* rule says, won being set by a check mark on a bet type line.
C18_ParseSample ==
    \A p \in Procs :
        ParseDone(p) =>
            LET parsed == req[p].loc.parsed
                fields == FieldsOf(ParseStart, req[p].arg.lines)
            IN  /\ req[p].arg.text = SampleMessage => parsed = <<SampleParsed>>
                /\ parsed # <<>> => parsed[1] = fields
                /\ parsed = <<>> => \E f \in {"home_team", "away_team", "bet_type"} :
                                       fields[f] = ""

\* The parser has answered for the sample message.
C18_Witness ==
    \E p \in Procs :
        /\ ParseDone(p)
        /\ req[p].arg.text = SampleMessage
        /\ req[p].loc.parsed = <<SampleParsed>>

WebhookDone(p) == hist[p].tracked /\ req[p].pc = "done" /\ req[p].op = "stripe_webhook"

\* The delivery failed while it was processed: its signature did not verify,
\* or a store call raised.
ProcessingFailed(p) == ~req[p].arg.valid \/ "raised" \in DOMAIN req[p].loc

\* C19: with the provider key configured the webhook always answers 200; a
\* delivery whose signature does not verify, or one of whose store calls
\* raises, is answered {status: error}; and a delivery whose signature does
\* not verify changes no transaction and no user.
C19_WebhookFailureReported ==
    \A p \in Procs :
        (WebhookDone(p) /\ env.STRIPE_API_KEY) =>
            /\ req[p].resp.status = 200
            /\ ProcessingFailed(p) => req[p].resp.detail = "error"
            /\ ~req[p].arg.valid => /\ users = hist[p].users
                                    /\ payment_transactions = hist[p].payment_transactions

\* An unsigned delivery that names a stored, unpaid transaction as paid has
\* been answered.
C19_Witness ==
    \E p \in Procs :
        /\ WebhookDone(p)
        /\ env.STRIPE_API_KEY
        /\ ~req[p].arg.valid
        /\ req[p].arg.payment_status = "paid"
        /\ \E i \in 1..Len(payment_transactions) :
             /\ payment_transactions[i].session_id = req[p].arg.session_id
             /\ payment_transactions[i].payment_status = "pending"
        /\ req[p].resp = [status |-> 200, detail |-> "error"]

\* A poll or a webhook delivery has started and not yet answered.
PaymentCallInProgress ==
    \E p \in Procs :
        /\ req[p].op \in {"get_checkout_status", "stripe_webhook"}
        /\ req[p].pc # "done"

\* C20: while no poll and no webhook delivery is in progress, the user who
\* started the checkout session of every paid transaction is VIP with an
\* active subscription.
C20_PaidTransactionOwnerIsVip ==
    ~PaymentCallInProgress =>
        \A i \in 1..Len(payment_transactions) :
            payment_transactions[i].payment_status = "paid" =>
                \E u \in 1..Len(users) :
                    /\ users[u].id = payment_transactions[i].user_id
                    /\ users[u].is_vip
                    /\ users[u].subscription_status = "active"

\* A verified delivery has been answered {"status": "success"}.
VerifiedWebhookDone(p) ==
    /\ WebhookDone(p)
    /\ req[p].arg.valid
    /\ req[p].resp = [status |-> 200, detail |-> "success"]

\* C21: after a verified paid event for session s with metadata user u, the
\* transaction of s is paid and the others are as before, u is VIP with an
\* active subscription whose id is s and every other user is as before; a
\* verified event that is not paid changes no transaction and no user.
C21_WebhookEffect ==
    \A p \in Procs :
        VerifiedWebhookDone(p) =>
            LET s == req[p].arg.session_id
                u == req[p].arg.metadata.user_id
            IN  IF req[p].arg.payment_status = "paid"
                THEN /\ StoredPaid(payment_transactions, s)
                     /\ Len(payment_transactions) = Len(hist[p].payment_transactions)
                     /\ \A i \in 1..Len(payment_transactions) :
                          payment_transactions[i].session_id # s =>
                              payment_transactions[i] = hist[p].payment_transactions[i]
                     /\ Len(users) = Len(hist[p].users)
                     /\ \A i \in 1..Len(users) :
                          users[i] = IF hist[p].users[i].id = u
                                     THEN GrantVip(hist[p].users[i], s)
                                     ELSE hist[p].users[i]
                     /\ \E i \in 1..Len(users) : users[i].id = u
                ELSE UsersAndTransactionsAsAtStart(p)

\* A verified paid event has made a user VIP who was not, another user being
\* stored.
C21_Witness ==
    \E p \in Procs :
        /\ VerifiedWebhookDone(p)
        /\ req[p].arg.payment_status = "paid"
        /\ \E i, j \in 1..Len(users) :
             /\ users[i].id = req[p].arg.metadata.user_id
             /\ ~hist[p].users[i].is_vip
             /\ users[i].is_vip
             /\ j # i

\* C22: no two stored users have the same email, also when registrations of
\* one email interleave their lookup and their insert.
C22_EmailUnique ==
    \A i, j \in 1..Len(users) : i # j => users[i].email # users[j].email

\* Request p is verify_admin, called by the user with the admin code, about to
\* compare the code.
ElevatingWithCode(p, user_id) ==
    /\ At(p, "verify_admin", "body")
    /\ req[p].arg.code = ADMIN_CODE
    /\ req[p].user.id = user_id

\* One step: a stored user's is_admin goes from false to true only in the step
\* of that user's verify_admin with the admin code, which always sets it; it
\* never goes back to false; a user stored by the step is not an admin.
AdminChangesByElevationOnly ==
    /\ Len(users') >= Len(users)
    /\ \A i \in 1..Len(users') :
         IF i <= Len(users)
         THEN /\ users'[i].id = users[i].id
              /\ users[i].is_admin => users'[i].is_admin
              /\ (~users[i].is_admin /\ users'[i].is_admin)
                    => \E p \in Procs : ElevatingWithCode(p, users[i].id)
              /\ (\E p \in Procs : ElevatingWithCode(p, users[i].id) /\ req'[p].pc = "done")
                    => users'[i].is_admin
         ELSE ~users'[i].is_admin

\* C23: is_admin is true exactly for the users who have called verify_admin
\* with the admin code: no other operation changes it, and once true it stays
\* true.
C23_AdminIffElevated == [][AdminChangesByElevationOnly]_vars

\* An elevated user has since been through a paid webhook event, the other
\* user not being an admin.
C23_Witness ==
    \E p \in Procs :
        /\ VerifiedWebhookDone(p)
        /\ req[p].arg.payment_status = "paid"
        /\ \E i, j \in 1..Len(users) : users[i].is_admin /\ ~users[j].is_admin

\* C24: for every user is_vip, an active subscription_status and a set
\* subscription_id go together, and a set subscription_id is the session id of
\* a stored transaction that is paid.
C24_VipSubscriptionConsistent ==
    \A i \in 1..Len(users) :
        /\ users[i].is_vip <=> users[i].subscription_status = "active"
        /\ users[i].is_vip <=> users[i].subscription_id # None
        /\ users[i].subscription_id # None
              => StoredPaid(payment_transactions, users[i].subscription_id)

\* A user is VIP through a paid session while another user is not, and calls
\* are in progress in two slots.
C24_Witness ==
    /\ \E i, j \in 1..Len(users) :
         /\ users[i].is_vip /\ users[i].subscription_id # None
         /\ ~users[j].is_vip /\ users[j].subscription_id = None
    /\ \E p, q \in Procs : p # q /\ req[p].pc \notin {"idle", "done"}
                                 /\ req[q].pc \notin {"idle", "done"}

\* A finished results listing of the free or the VIP tier.
ResultsDone(p) ==
    /\ hist[p].tracked
    /\ req[p].pc = "done"
    /\ req[p].op \in {"get_results", "get_vip_results"}
    /\ req[p].resp.status = 200

\* C25: a results listing returns only won or lost picks of the requested
\* tier, at most 100 of them, ordered by the instant they are scheduled to
\* start, latest first; and none of them is a pick an upcoming listing returns.
C25_ResultsListing ==
    \A p \in Procs :
        ResultsDone(p) =>
            LET listed == req[p].loc.bets
            IN  /\ \A b \in Range(listed) :
                     /\ b.status \in {"won", "lost"}
                     /\ b.is_vip = (req[p].op = "get_vip_results")
                     /\ \A today \in 0..MaxDays : b \notin Upcoming(b.is_vip, today)
                /\ Len(listed) <= 100
                /\ \A i, j \in DOMAIN listed :
                     i < j => FromIsoFormat(listed[i].kick_off)
                                 >= FromIsoFormat(listed[j].kick_off)

\* A finished update of a pick that was stored when the request started.
UpdateDone(p) ==
    /\ hist[p].tracked
    /\ req[p].pc = "done"
    /\ req[p].op = "update_bet_result"
    /\ req[p].resp.status = 200

\* The fields of a pick an update may write.
ResultFields == {"status", "home_score", "away_score"}

\* C26: an update of a stored pick sets its status to the one supplied,
\* whatever it was, sets each score only when one is supplied, and leaves the
\* pick's other fields and every other pick as they were.
C26_UpdateEffect ==
    \A p \in Procs :
        UpdateDone(p) =>
            /\ Len(bets) = Len(hist[p].bets)
            /\ \A i \in 1..Len(bets) :
                 LET old == hist[p].bets[i]
                     new == bets[i]
                     d == req[p].arg
                 IN  IF old.id # d.bet_id THEN new = old
                     ELSE /\ new.status = d.status
                          /\ new.home_score = IF d.home_score = NoScore
                                              THEN old.home_score ELSE d.home_score
                          /\ new.away_score = IF d.away_score = NoScore
                                              THEN old.away_score ELSE d.away_score
                          /\ \A f \in DOMAIN old \ ResultFields : new[f] = old[f]
                          /\ DOMAIN new = DOMAIN old
            /\ \E i \in 1..Len(bets) : bets[i].id = req[p].arg.bet_id

\* A won pick with both scores set has been put back to pending with a new
\* home score and no away score supplied, another pick being stored.
C26_Witness ==
    \E p \in Procs :
        /\ UpdateDone(p)
        /\ req[p].arg.status = "pending"
        /\ req[p].arg.home_score # NoScore
        /\ req[p].arg.away_score = NoScore
        /\ Len(bets) = 2
        /\ \E i \in 1..Len(bets) :
             /\ hist[p].bets[i].id = req[p].arg.bet_id
             /\ hist[p].bets[i].status = "won"
             /\ hist[p].bets[i].away_score # NoScore
             /\ bets[i].away_score = hist[p].bets[i].away_score

\* C27: the status of every stored pick is pending, won or lost.
C27_StatusValues ==
    \A i \in 1..Len(bets) : bets[i].status \in {"pending", "won", "lost"}

\* The stored picks that import_from_telegram created.
BatchImported == {b \in Range(bets) : b.telegram_message_id # None}

\* The pick is what the batch import makes of the post: settled by the parsed
\* indicator, league "Imported", free, scheduled at the post's own time.
ImportedFrom(b, post) ==
    /\ b.telegram_message_id = post.message_id
    /\ Parsed[post.text] # <<>>
    /\ b.status = IF Parsed[post.text][1].is_won THEN "won" ELSE "lost"
    /\ b.league = "Imported"
    /\ ~b.is_vip
    /\ b.kick_off = IsoFormat(post.date)
    /\ FromIsoFormat(b.kick_off) = post.date
    /\ b.date = DateOf(post.date)

\* C28: every pick the batch import created is settled (won when the parsed
\* indicator is true, lost otherwise), has league "Imported", is free, carries
\* the post's time, date and message id; a free results listing returns it and
\* no upcoming listing does.
C28_BatchImportedSettled ==
    /\ \A b \in BatchImported :
         /\ \E post \in Posts : ImportedFrom(b, post)
         /\ \A vip \in BOOLEAN, today \in 0..MaxDays : b \notin Upcoming(vip, today)
    /\ \A p \in Procs :
         /\ (ResultsDone(p) /\ req[p].op = "get_results")
               => BatchImported \subseteq Range(req[p].loc.bets)
         /\ UpcomingDone(p) => BatchImported \cap Range(req[p].loc.bets) = {}

\* A won and a lost pick of the batch import are both in a finished free
\* results listing.
C28_Witness ==
    \E p \in Procs :
        /\ ResultsDone(p)
        /\ req[p].op = "get_results"
        /\ \E b, c \in BatchImported :
             /\ b.status = "won" /\ c.status = "lost"
             /\ {b, c} \subseteq Range(req[p].loc.bets)

\* One step: when import_manual_telegram answers, a text that parses has added
\* exactly one pick, settled by the parsed indicator, without a message id and
\* scheduled at the clock's instant, whatever is stored already; an empty text
\* or one that does not parse is answered 400 and adds nothing.
ManualImportStep ==
    \A p \in Procs :
        (At(p, "import_manual_telegram", "body") /\ req'[p].pc = "done") =>
            LET text == req[p].arg.text
            IN  IF text # "" /\ Parsed[text] # <<>>
                THEN /\ req'[p].resp.status = 200
                     /\ Len(bets') = Len(bets) + 1
                     /\ SubSeq(bets', 1, Len(bets)) = bets
                     /\ LET b == bets'[Len(bets')]
                        IN  /\ b.status = IF Parsed[text][1].is_won THEN "won" ELSE "lost"
                            /\ b.telegram_message_id = None
                            /\ b.kick_off = IsoFormat(clock)
                            /\ \A i \in 1..Len(bets) : bets[i].id # b.id
                            /\ req'[p].loc.bet = b
                ELSE /\ req'[p].resp.status = 400
                     /\ text # "" => req'[p].resp.detail
                                        = "Could not parse the message. Check the format."
                     /\ bets' = bets

\* C29: the manual import does no deduplication: every call with a text that
\* parses adds one settled pick, so the same text twice adds two; a text that
\* does not parse is refused and adds nothing.
C29_ManualImportNoDedup == [][ManualImportStep]_vars

\* The same text has been imported twice: two stored picks without message id
\* that differ in their id only.
C29_Witness ==
    \E p \in Procs :
        /\ req[p].op = "import_manual_telegram" /\ req[p].pc = "done"
        /\ req[p].resp.status = 200
        /\ \E i, j \in 1..Len(bets) :
             /\ i # j
             /\ bets[i].telegram_message_id = None
             /\ bets[j] = [bets[i] EXCEPT !.id = bets[j].id]


\* The fields some line of the message sets.
MatchedFields(m) == UNION {DOMAIN MessageLines[m[i]].sets : i \in DOMAIN m}

\* The values of the fields no line matched.
Defaults ==
    [stake |-> 5, odds |-> 1800, is_won |-> FALSE, home_score |-> NoScore,
     away_score |-> NoScore]

\* C30: the parser returns nothing exactly when no line gave the home team, the
\* away team or the bet type; otherwise it returns a record of home_team,
\* away_team, bet_type, stake, odds, is_won, home_score and away_score, with
\* stake 5, odds 1.80, not won and no scores where no line matched the field.
C30_NullIffRequiredMissing ==
    \A p \in Procs :
        ParseDone(p) =>
            LET parsed == req[p].loc.parsed
                matched == MatchedFields(req[p].arg.lines)
            IN  /\ parsed = <<>> <=> ~({"home_team", "away_team", "bet_type"} \subseteq matched)
                /\ parsed # <<>> =>
                     /\ DOMAIN parsed[1] = {"home_team", "away_team", "bet_type"} \cup DOMAIN Defaults
                     /\ \A f \in {"home_team", "away_team", "bet_type"} : parsed[1][f] # ""
                     /\ \A f \in DOMAIN Defaults \ matched : parsed[1][f] = Defaults[f]

\* The parser has answered for a message of a match line and a bet type line
\* only, with the defaults in the other fields.
C30_Witness ==
    \E p \in Procs :
        /\ ParseDone(p)
        /\ MatchedFields(req[p].arg.lines) = {"home_team", "away_team", "bet_type"}
        /\ req[p].loc.parsed # <<>>
        /\ req[p].loc.parsed[1].stake = 5
        /\ req[p].loc.parsed[1].odds = 1800
        /\ req[p].loc.parsed[1].home_score = NoScore


\* The message has a result line that marks a loss and no win.
HasLossResult(m) == \E i \in DOMAIN m : MessageLines[m[i]].text = "! Result - Lost"

\* C31: for every message with a result line marking a loss, the parsed pick
\* is not won, whatever check marks its bet type lines carry and wherever the
\* result line stands.
C31_ResultOverridesCheckMark ==
    \A p \in Procs :
        (ParseDone(p) /\ HasLossResult(req[p].arg.lines) /\ req[p].loc.parsed # <<>>)
            => ~req[p].loc.parsed[1].is_won


\* The first integer written on each stake line.
FirstInteger == ("^ Points - 5" :> 5) @@ ("^ Points - 12" :> 12)

\* The positions of the message's stake lines.
StakePositions(m) == {i \in DOMAIN m : MessageLines[m[i]].text \in DOMAIN FirstInteger}

\* The integer written on the last stake line of the message.
LastWrittenStake(m) ==
    LET last == CHOOSE i \in StakePositions(m) : \A j \in StakePositions(m) : j <= i
    IN  FirstInteger[MessageLines[m[last]].text]

\* C32: the parsed stake is an integer of at most 10: the first integer of the
\* last stake line, 10 when that integer is above 10, and 5 when the message
\* has no stake line.
C32_StakeAtMostTen ==
    \A p \in Procs :
        (ParseDone(p) /\ req[p].loc.parsed # <<>>) =>
            LET m == req[p].arg.lines
                stake == req[p].loc.parsed[1].stake
            IN  /\ stake \in 0..10
                /\ StakePositions(m) = {} => stake = 5
                /\ StakePositions(m) # {} =>
                     stake = IF LastWrittenStake(m) > 10 THEN 10 ELSE LastWrittenStake(m)

\* The parser has answered with stake 10 for a message whose last stake line
\* says 12 and follows one that says 5.
C32_Witness ==
    \E p \in Procs :
        /\ ParseDone(p)
        /\ req[p].loc.parsed # <<>>
        /\ Cardinality(StakePositions(req[p].arg.lines)) = 2
        /\ LastWrittenStake(req[p].arg.lines) = 12
        /\ req[p].loc.parsed[1].stake = 10


\* C33: every answer of the statistics is consistent in itself, whatever
\* another request wrote between the two counts: won and lost add up to the
\* total, lost is not negative, won is at most the total, and the win rate
\* lies between 0 and 100 percent.
C33_StatsConsistent ==
    \A p \in Procs :
        (req[p].op = "get_stats" /\ req[p].pc = "done") =>
            LET stats == req[p].loc
            IN  /\ stats.won_bets + stats.lost_bets = stats.total_bets
                /\ stats.lost_bets >= 0
                /\ stats.won_bets <= stats.total_bets
                /\ stats.win_rate >= 0
                /\ stats.win_rate <= 1000

=============================================================================
